---- MODULE Spec2Model ----
(***************************************************************************)
(* A model of the GitOps bootstrap of kam (pkg/pipelines/bootstrap.go,     *)
(* pkg/pipelines/build.go): the resource maps it composes, the pruning of  *)
(* the commit-status task, and the steps of Bootstrap.                     *)
(***************************************************************************)
EXTENDS Integers, Sequences, FiniteSets, TLC

VARIABLES
    \* removeCommitStatus: the pipeline handed in, the driver, the pipeline
    \* object after the call (the function mutates it in place), call made
    pipeline0, driver, pipeline, pruneDone,
    \* res.Merge: the two arguments and the returned map
    overlay, base, merged, mergeDone,
    \* Bootstrap: the options object, the process-wide driver identifier, the
    \* filesystem, the position in Bootstrap, its local maps, what
    \* createCICDResources last returned, the error Bootstrap returns, and the
    \* steps run so far
    o, defaultIdentifier, fsys, pc, bootstrapped, otherResources, cicdRet, bootstrapErr, log,
    \* the invocations of Bootstrap on one output path: which invocation this
    \* is, the options its command line gave it, and what the invocation before
    \* it composed and left on the filesystem
    run, args, firstRun,
    \* the composition of bootstrapResources on a manifest model: the options,
    \* environments and config it works on, what it returned, call made
    composeIn, composeOut, composeDone,
    \* the bootstrap command: its parameters, the flags of its command line,
    \* the access token the keyring and the environment hold for the service
    \* host, the tokens written to the keyring, the position in Complete,
    \* Validate, Run, and the error returned
    io, cmd, keyring, saved, cmdPc, cmdErr,
    \* addPrefixToResources: the prefix and map handed in, the map as the call
    \* leaves it, the returned map, call made
    prefixIn, prefixFiles, prefixOut, prefixDone,
    \* maybeMakeHookSecrets called on an options object: the object, the calls
    \* of secrets.GenerateString made so far (the length asked for and the
    \* string returned, "" for an error), the error last returned, and the
    \* number of calls of maybeMakeHookSecrets
    hookOpts, hookCalls, hookErr, hookN,
    \* ui.CheckRepoAccessTokenValidity: the parameters it is given and mutates,
    \* and the course of the call (position, error returned, prompts,
    \* validations and warnings made, results of the validations, and
    \* TokenRepoMatchCondition on entry)
    repoParams, retry

runVars == <<run, args, firstRun>>
bootVars == <<o, defaultIdentifier, fsys, pc, bootstrapped, otherResources, cicdRet, bootstrapErr, log, runVars>>
pruneVars == <<pipeline0, driver, pipeline, pruneDone>>
mergeVars == <<overlay, base, merged, mergeDone>>
composeVars == <<composeIn, composeOut, composeDone>>
cmdVars == <<io, cmd, keyring, saved, cmdPc, cmdErr>>
prefixVars == <<prefixIn, prefixFiles, prefixOut, prefixDone>>
hookVars == <<hookOpts, hookCalls, hookErr, hookN>>
retryVars == <<repoParams, retry>>
vars == <<pruneVars, mergeVars, bootVars, composeVars, cmdVars, prefixVars, hookVars, retryVars>>

\* A value no map, pipeline or record of the program is equal to (Go's nil).
Nil == [kind |-> "nil"]

EmptyMap == [k \in {} |-> Nil]
EmptyPipeline == [tasks |-> <<>>, finally |-> <<>>]

Range(s) == {s[i] : i \in DOMAIN s}

\* All sequences without repetition over S, of length at most n.
InjSeqs(S, n) ==
    UNION {{s \in [1..k -> S] : \A i, j \in 1..k : i < j => s[i] # s[j]} : k \in 0..n}

(***************************************************************************)
(* removeCommitStatus                                                      *)
(***************************************************************************)
setPendingStatusTask == "set-pending-status"

\* The loop of removeCommitStatus: ts the tasks still to visit, acc the
\* tasks appended so far.
RECURSIVE removeCommitStatusLoop(_, _)
removeCommitStatusLoop(ts, acc) ==
    IF ts = <<>> THEN acc
    ELSE LET t0   == Head(ts)
             task == IF Len(t0.runAfter) > 0 /\ t0.runAfter[1] = setPendingStatusTask
                     THEN [t0 EXCEPT !.runAfter = <<>>]
                     ELSE t0
         IN removeCommitStatusLoop(Tail(ts),
                IF task.name # setPendingStatusTask THEN Append(acc, task) ELSE acc)

\* A removeCommitStatus that forgets to repair the edges of dependent tasks.
removeCommitStatusKeepsEdges(p, drv) ==
    IF drv = "" THEN p
    ELSE [p EXCEPT !.finally = <<>>,
                   !.tasks = SelectSeq(p.tasks, LAMBDA t : t.name # setPendingStatusTask)]

removeCommitStatus(p, drv) ==
    IF drv = "" THEN p
    ELSE [p EXCEPT !.finally = <<>>,
                   !.tasks = removeCommitStatusLoop(p.tasks, <<>>)]

(***************************************************************************)
(* res.Merge                                                               *)
(***************************************************************************)
\* A Merge in which the base wins on a collision.
MergeBaseWins(from, to) ==
    [k \in DOMAIN from \cup DOMAIN to |-> IF k \in DOMAIN to THEN to[k] ELSE from[k]]

\* Merge(from, to): every key of to, then every key of from on top.
Merge(from, to) ==
    [k \in DOMAIN from \cup DOMAIN to |-> IF k \in DOMAIN from THEN from[k] ELSE to[k]]

(***************************************************************************)
(* Path constants and names (bootstrap.go, const block)                    *)
(***************************************************************************)
Kustomize == "kustomization.yaml"
namespacesPath == "01-namespaces/cicd-environment.yaml"
rolesPath == "02-rolebindings/pipeline-service-role.yaml"
rolebindingsPath == "02-rolebindings/pipeline-service-rolebinding.yaml"
serviceAccountPath == "02-rolebindings/pipeline-service-account.yaml"
argocdAdminRolePath == "02-rolebindings/argocd-admin.yaml"
gitopsTasksPath == "03-tasks/deploy-from-source-task.yaml"
commitStatusTaskPath == "03-tasks/set-commit-status-task.yaml"
ciPipelinesPath == "04-pipelines/ci-dryrun-from-push-pipeline.yaml"
appCiPipelinesPath == "04-pipelines/app-ci-pipeline.yaml"
pushTemplatePath == "06-templates/ci-dryrun-from-push-template.yaml"
appCIPushTemplatePath == "06-templates/app-ci-build-from-push-template.yaml"
eventListenerPath == "07-eventlisteners/cicd-event-listener.yaml"
routePath == "08-routes/gitops-webhook-event-listener.yaml"
dockerSecretName == "regcred"
authTokenSecretName == "git-host-access-token"
basicAuthTokenName == "git-host-basic-auth-token"
saName == "pipeline"
roleBindingName == "pipelines-service-role-binding"
pipelinesFile == "pipelines.yaml"
appCITemplateName == "app-ci-template"
version == 1

\* filepath.Join of two non-empty clean paths.
Join(a, b) == a \o "/" \o b

(***************************************************************************)
(* Collaborators of other packages, from their contracts                   *)
(***************************************************************************)
\* namespaces.NamesWithPrefix: the prefix followed by cicd, dev, stage.
NamesWithPrefix(prefix) ==
    [cicd |-> prefix \o "cicd", dev |-> prefix \o "dev", stage |-> prefix \o "stage"]

\* The driver identifier: a process-wide mapping of one host to a driver set
\* for a private repository, over the two well-known hosts.
Identify(identifier, host) ==
    IF identifier # Nil /\ identifier.host = host THEN identifier.driver
    ELSE IF host = "github.com" THEN "github"
    ELSE IF host = "gitlab.com" THEN "gitlab"
    ELSE ""

\* scm.NewRepository: fails on a URL that does not parse or whose host no
\* driver is identified for.
NewRepository(identifier, u) ==
    IF ~u.parses THEN [err |-> "parse", url |-> u, driver |-> ""]
    ELSE IF Identify(identifier, u.host) = "" THEN [err |-> "unable to identify driver", url |-> u, driver |-> ""]
    ELSE [err |-> "", url |-> u, driver |-> Identify(identifier, u.host)]

\* Repository.PushBindingName: named after the repository's driver.
PushBindingName(repo) == repo.driver \o "-push-binding"

\* imagerepo.ValidateImageRepo on the components of the image repository:
\* <project>/<app> is the internal registry, <registry>/<user>/<repo> is
\* internal only for the internal registry host, anything else is an error.
InternalRegistryHost == "image-registry.openshift-image-registry.svc:5000"
ValidateImageRepo(imageRepo) ==
    IF Len(imageRepo) = 2
    THEN [err |-> "", isInternal |-> TRUE, imageRepo |-> <<InternalRegistryHost>> \o imageRepo]
    ELSE IF Len(imageRepo) = 3
    THEN [err |-> "", isInternal |-> imageRepo[1] = InternalRegistryHost, imageRepo |-> imageRepo]
    ELSE [err |-> "failed to parse image repo", isInternal |-> FALSE, imageRepo |-> imageRepo]

\* config.PathForPipelines: the cicd namespace is the root segment.
PathForPipelines(cfg) == cfg.name

\* config.PathForService.
PathForService(app, env, svcName) ==
    Join(Join(Join(Join(Join("environments", env.name), "apps"), app.name), "services"), svcName)

\* secrets.MakeServiceWebhookSecretName.
MakeServiceWebhookSecretName(envName, svcName) == "webhook-secret-" \o envName \o "-" \o svcName

\* A resource of a kind, in a namespace, with a name.
Resource(kind, ns, name) == [kind |-> kind, ns |-> ns, name |-> name]
Secret(ns, name, data) == [kind |-> "Secret", ns |-> ns, name |-> name, data |-> data]

\* roles.CreateServiceAccount, and roles.AddSecretToSA, which appends to the
\* account it is given and returns that same account.
CreateServiceAccount(ns, name) == [kind |-> "ServiceAccount", ns |-> ns, name |-> name, secrets |-> <<>>]
\* An AddSecretToSA that returns an account holding the new secret only.
AddSecretToSAForgetsEarlier(sa, secretName) == [sa EXCEPT !.secrets = <<secretName>>]
AddSecretToSA(sa, secretName) == [sa EXCEPT !.secrets = Append(@, secretName)]

\* pipelines.CreateCIPipeline and pipelines.CreateAppCIPipeline: each starts
\* with the set-pending-status task, which one task runs after, and ends with
\* a finally task reporting the status.
CreateCIPipeline(ns) ==
    [kind |-> "Pipeline", ns |-> ns, name |-> "ci-dryrun-from-push-pipeline",
     tasks |-> << [name |-> setPendingStatusTask, runAfter |-> <<>>],
                  [name |-> "git-clone", runAfter |-> <<setPendingStatusTask>>],
                  [name |-> "apply-source", runAfter |-> <<"git-clone">>] >>,
     finally |-> <<"set-final-status">>]
CreateAppCIPipeline(ns) ==
    [kind |-> "Pipeline", ns |-> ns, name |-> "app-ci-pipeline",
     tasks |-> << [name |-> setPendingStatusTask, runAfter |-> <<>>],
                  [name |-> "clone-source", runAfter |-> <<setPendingStatusTask>>],
                  [name |-> "build-image", runAfter |-> <<"clone-source">>] >>,
     finally |-> <<"set-final-status">>]

\* Kustomization.AddResources: appends the names to the resource list.
AddResources(k, names) == [k EXCEPT !.resources = @ \o names]

(***************************************************************************)
(* sort.Strings over the file names the program generates                  *)
(***************************************************************************)
LexOrder == <<
    "01-namespaces/cicd-environment.yaml",
    "02-rolebindings/argocd-admin.yaml",
    "02-rolebindings/pipeline-service-account.yaml",
    "02-rolebindings/pipeline-service-role.yaml",
    "02-rolebindings/pipeline-service-rolebinding.yaml",
    "03-tasks/deploy-from-source-task.yaml",
    "03-tasks/set-commit-status-task.yaml",
    "04-pipelines/app-ci-pipeline.yaml",
    "04-pipelines/ci-dryrun-from-push-pipeline.yaml",
    "05-bindings/github-push-binding.yaml",
    "05-bindings/gitlab-push-binding.yaml",
    "06-templates/app-ci-build-from-push-template.yaml",
    "06-templates/ci-dryrun-from-push-template.yaml",
    "07-eventlisteners/cicd-event-listener.yaml",
    "08-routes/gitops-webhook-event-listener.yaml" >>
SortStrings(S) == SelectSeq(LexOrder, LAMBDA f : f \in S)

(***************************************************************************)
(* The CICD resources and the initial files                                *)
(***************************************************************************)
\* A createDockerSecret that returns no secret and no error for a file it
\* cannot open.
createDockerSecretSkipsMissing(fs, dockerConfigJSONFilename, secretNS) ==
    IF dockerConfigJSONFilename = ""
    THEN [err |-> "failed to generate path to file: --dockerconfigjson flag is not provided", secret |-> Nil]
    ELSE IF dockerConfigJSONFilename \notin DOMAIN fs.files
    THEN [err |-> "", secret |-> Nil]
    ELSE [err |-> "", secret |-> Secret(secretNS, dockerSecretName, fs.files[dockerConfigJSONFilename])]

\* createDockerSecret; fs.files holds the files that can be opened.
createDockerSecret(fs, dockerConfigJSONFilename, secretNS) ==
    IF dockerConfigJSONFilename = ""
    THEN [err |-> "failed to generate path to file: --dockerconfigjson flag is not provided", secret |-> Nil]
    ELSE IF dockerConfigJSONFilename \notin DOMAIN fs.files
    THEN [err |-> "failed to read Docker config", secret |-> Nil]
    ELSE [err |-> "", secret |-> Secret(secretNS, dockerSecretName, fs.files[dockerConfigJSONFilename])]

\* generateSecrets: writes into the two maps and the service account it is
\* given (st holds them); ext names the collaborator that fails in this run.
generateSecrets(st, ns, opts, ext) ==
    IF ext = "tokenSecret" THEN [st EXCEPT !.err = "failed to generate Secret"]
    ELSE IF ~opts.ServiceRepoURL.parses
    THEN [st EXCEPT !.err = "failed to parse the Service Repo URL",
                    !.otherOutputs = (Join("secrets", "git-host-access-token.yaml") :>
                                         Secret(ns, authTokenSecretName, opts.GitHostAccessToken)) @@ @,
                    !.sa = AddSecretToSA(@, authTokenSecretName),
                    !.outputs = (serviceAccountPath :> AddSecretToSA(st.sa, authTokenSecretName)) @@ @]
    ELSE [st EXCEPT !.otherOutputs =
                        (Join("secrets", basicAuthTokenName \o ".yaml") :>
                            [kind |-> "Secret", ns |-> ns, name |-> basicAuthTokenName,
                             data |-> opts.GitHostAccessToken,
                             annotation |-> opts.ServiceRepoURL.host])
                        @@ (Join("secrets", "git-host-access-token.yaml") :>
                               Secret(ns, authTokenSecretName, opts.GitHostAccessToken))
                        @@ @,
                    !.sa = AddSecretToSA(AddSecretToSA(@, authTokenSecretName), basicAuthTokenName),
                    !.outputs = (serviceAccountPath :>
                                    AddSecretToSA(AddSecretToSA(st.sa, authTokenSecretName),
                                                  basicAuthTokenName)) @@ @]

\* createCICDResources, statement by statement. st holds its locals: the two
\* maps, the service account and the error it returns; a statement after a
\* return does nothing.
\* A start that notes the webhook secret on the namespace it creates.
cicdStartNotesSecret(cicdNamespace, opts, ext) ==
    IF ext = "githubSecret"
    THEN [err |-> "failed to generate GitHub Webhook Secret", outputs |-> Nil,
          otherOutputs |-> Nil, sa |-> Nil]
    ELSE [err |-> "",
          otherOutputs |-> (Join("secrets", "gitops-webhook-secret.yaml") :>
                               Secret(cicdNamespace, "gitops-webhook-secret", opts.GitOpsWebhookSecret)),
          outputs |-> (rolesPath :> Resource("ClusterRole", "", "pipelines-clusterrole"))
                      @@ (namespacesPath :>
                             [kind |-> "Namespace", ns |-> "", name |-> cicdNamespace,
                              hookSecret |-> opts.GitOpsWebhookSecret]),
          sa |-> CreateServiceAccount(cicdNamespace, saName)]

\* The webhook secret, the namespace, the cluster role, the service account.
cicdStart(cicdNamespace, opts, ext) ==
    IF ext = "githubSecret"
    THEN [err |-> "failed to generate GitHub Webhook Secret", outputs |-> Nil,
          otherOutputs |-> Nil, sa |-> Nil]
    ELSE [err |-> "",
          otherOutputs |-> (Join("secrets", "gitops-webhook-secret.yaml") :>
                               Secret(cicdNamespace, "gitops-webhook-secret", opts.GitOpsWebhookSecret)),
          outputs |-> (rolesPath :> Resource("ClusterRole", "", "pipelines-clusterrole"))
                      @@ (namespacesPath :> Resource("Namespace", "", cicdNamespace)),
          sa |-> CreateServiceAccount(cicdNamespace, saName)]

\* The docker-config secret, when a docker-config path was given.
cicdDockerSecret(st, fs, cicdNamespace, opts) ==
    IF st.err # "" \/ opts.DockerConfigJSONFilename = "" THEN st
    ELSE LET docker == createDockerSecret(fs, opts.DockerConfigJSONFilename, cicdNamespace)
         IN IF docker.err # ""
            THEN [st EXCEPT !.err = docker.err, !.outputs = Nil, !.otherOutputs = Nil]
            ELSE [st EXCEPT !.otherOutputs =
                                IF docker.secret # Nil
                                THEN (Join("secrets", "docker-config.yaml") :> docker.secret) @@ @
                                ELSE @,
                            !.sa = AddSecretToSA(@, dockerSecretName),
                            !.outputs = (serviceAccountPath :> AddSecretToSA(st.sa, dockerSecretName)) @@ @]

\* What createCICDResources makes of generateSecrets' result.
cicdGenerated(g) ==
    IF g.err # "" THEN [g EXCEPT !.outputs = Nil, !.otherOutputs = Nil] ELSE g

\* The access-token secrets, when an access token was given.
cicdAccessToken(st, cicdNamespace, opts, ext) ==
    IF st.err # "" \/ opts.GitHostAccessToken = "" THEN st
    ELSE cicdGenerated(generateSecrets(st, cicdNamespace, opts, ext))

\* The ArgoCD admin role binding, the cluster role binding and the dry-run
\* script, whose failure returns the side map as it is.
cicdRoleBindings(st, cicdNamespace, ext) ==
    IF st.err # "" THEN st
    ELSE IF ext = "script"
    THEN [st EXCEPT !.err = "failed to make dry-run script", !.outputs = Nil]
    ELSE [st EXCEPT !.outputs =
            (rolebindingsPath :> [kind |-> "ClusterRoleBinding", ns |-> "", name |-> roleBindingName,
                                  subject |-> [ns |-> st.sa.ns, name |-> st.sa.name],
                                  role |-> "pipelines-clusterrole"])
            @@ (argocdAdminRolePath :> Resource("RoleBinding", "argocd", "argocd-admin"))
            @@ @]

\* Pipelines next to a commit-status task that is emitted whatever the driver.
cicdPipelinesAlwaysStatusTask(st, repo, cicdNamespace, opts) ==
    IF st.err # "" THEN st
    ELSE [st EXCEPT !.outputs =
            (eventListenerPath :> [kind |-> "EventListener", ns |-> cicdNamespace,
                                   name |-> "cicd-event-listener", sa |-> saName,
                                   secret |-> "gitops-webhook-secret", driver |-> repo.driver])
            @@ (appCIPushTemplatePath :> [kind |-> "TriggerTemplate", ns |-> cicdNamespace,
                                          name |-> appCITemplateName, sa |-> saName])
            @@ (pushTemplatePath :> [kind |-> "TriggerTemplate", ns |-> cicdNamespace,
                                     name |-> "ci-dryrun-from-push-template", sa |-> saName])
            @@ (Join("05-bindings", PushBindingName(repo) \o ".yaml") :>
                    Resource("TriggerBinding", cicdNamespace, PushBindingName(repo)))
            @@ (appCiPipelinesPath :>
                    removeCommitStatus(CreateAppCIPipeline(cicdNamespace), opts.PrivateRepoDriver))
            @@ (ciPipelinesPath :>
                    removeCommitStatus(CreateCIPipeline(cicdNamespace), opts.PrivateRepoDriver))
            @@ (commitStatusTaskPath :> Resource("Task", cicdNamespace, "set-commit-status-task"))
            @@ (gitopsTasksPath :> Resource("Task", cicdNamespace, "deploy-from-source-task"))
            @@ @]

\* The tasks, the pipelines, the push binding, the templates and the event
\* listener.
cicdPipelines(st, repo, cicdNamespace, opts) ==
    IF st.err # "" THEN st
    ELSE [st EXCEPT !.outputs =
            (eventListenerPath :> [kind |-> "EventListener", ns |-> cicdNamespace,
                                   name |-> "cicd-event-listener", sa |-> saName,
                                   secret |-> "gitops-webhook-secret", driver |-> repo.driver])
            @@ (appCIPushTemplatePath :> [kind |-> "TriggerTemplate", ns |-> cicdNamespace,
                                          name |-> appCITemplateName, sa |-> saName])
            @@ (pushTemplatePath :> [kind |-> "TriggerTemplate", ns |-> cicdNamespace,
                                     name |-> "ci-dryrun-from-push-template", sa |-> saName])
            @@ (Join("05-bindings", PushBindingName(repo) \o ".yaml") :>
                    Resource("TriggerBinding", cicdNamespace, PushBindingName(repo)))
            @@ (appCiPipelinesPath :>
                    removeCommitStatus(CreateAppCIPipeline(cicdNamespace), opts.PrivateRepoDriver))
            @@ (ciPipelinesPath :>
                    removeCommitStatus(CreateCIPipeline(cicdNamespace), opts.PrivateRepoDriver))
            @@ (IF opts.PrivateRepoDriver = ""
                THEN (commitStatusTaskPath :> Resource("Task", cicdNamespace, "set-commit-status-task"))
                ELSE EmptyMap)
            @@ (gitopsTasksPath :> Resource("Task", cicdNamespace, "deploy-from-source-task"))
            @@ @]

\* A createCICDResources that makes no route.
cicdRouteOmitted(st, cicdNamespace, ext) == st

\* The route of the event listener.
cicdRoute(st, cicdNamespace, ext) ==
    IF st.err # "" THEN st
    ELSE IF ext = "route"
    THEN [st EXCEPT !.err = "failed to generate route", !.outputs = Nil, !.otherOutputs = Nil]
    ELSE [st EXCEPT !.outputs =
            (routePath :> Resource("Route", cicdNamespace, "gitops-webhook-event-listener-route")) @@ @]

\* The three values createCICDResources returns.
cicdReturn(st) == [err |-> st.err, outputs |-> st.outputs, otherOutputs |-> st.otherOutputs]

createCICDResources(fs, repo, pipelineConfig, opts, ext) ==
    cicdReturn(
      cicdRoute(
        cicdPipelines(
          cicdRoleBindings(
            cicdAccessToken(
              cicdDockerSecret(cicdStart(pipelineConfig.name, opts, ext),
                               fs, pipelineConfig.name, opts),
              pipelineConfig.name, opts, ext),
            pipelineConfig.name, ext),
          repo, pipelineConfig.name, opts),
        pipelineConfig.name, ext))

createManifest(gitOpsRepoURL, configEnv, envs) ==
    [kind |-> "Manifest", gitOpsURL |-> gitOpsRepoURL, environments |-> envs,
     config |-> configEnv, version |-> version]

getCICDKustomization(files) ==
    ("overlays/kustomization.yaml" :> [kind |-> "Kustomization", ptr |-> FALSE, resources |-> <<>>, bases |-> <<"../base">>])
    @@ ("base/kustomization.yaml" :> [kind |-> "Kustomization", ptr |-> FALSE, resources |-> files, bases |-> <<>>])

pipelinesPath(m) == Join(PathForPipelines(m.pipelines), "base")

\* strings.Split(p, "/") from position i on; start is where the current
\* element begins.
RECURSIVE SplitPath(_, _, _, _)
SplitPath(p, i, start, acc) ==
    IF i > Len(p) THEN Append(acc, SubSeq(p, start, Len(p)))
    ELSE IF SubSeq(p, i, i) = "/"
    THEN SplitPath(p, i + 1, i + 1, Append(acc, SubSeq(p, start, i - 1)))
    ELSE SplitPath(p, i + 1, start, acc)

\* filepath.Clean on the elements of a path: empty elements and "." are
\* dropped, ".." removes the element before it, stays in front of a relative
\* path and is dropped at the root.
RECURSIVE CleanElems(_, _, _)
CleanElems(elems, rooted, stack) ==
    IF elems = <<>> THEN stack
    ELSE CleanElems(Tail(elems), rooted,
            IF Head(elems) = "" \/ Head(elems) = "." THEN stack
            ELSE IF Head(elems) = ".."
            THEN IF stack # <<>> /\ stack[Len(stack)] # ".." THEN SubSeq(stack, 1, Len(stack) - 1)
                 ELSE IF rooted THEN stack ELSE Append(stack, "..")
            ELSE Append(stack, Head(elems)))

\* strings.Join(elems, "/").
RECURSIVE JoinElems(_)
JoinElems(elems) ==
    IF elems = <<>> THEN ""
    ELSE IF Len(elems) = 1 THEN elems[1]
    ELSE elems[1] \o "/" \o JoinElems(Tail(elems))

\* filepath.Clean, character by character.
filepathClean(p) ==
    IF p = "" THEN "."
    ELSE LET rooted == SubSeq(p, 1, 1) = "/"
             out == (IF rooted THEN "/" ELSE "")
                    \o JoinElems(CleanElems(SplitPath(p, 1, 1, <<>>), rooted, <<>>))
         IN IF out = "" THEN "." ELSE out

\* filepath.Clean of the paths createInitialFiles joins, computed once.
CleanedPaths ==
    [p \in {pre \o "/" \o k :
               pre \in {"cicd", "tst-cicd", "cicd/base", "tst-cicd/base"},
               k \in Range(LexOrder) \cup {"base/kustomization.yaml", "overlays/kustomization.yaml"}}
        |-> filepathClean(p)]
Clean(p) == IF p \in DOMAIN CleanedPaths THEN CleanedPaths[p] ELSE filepathClean(p)

\* filepath.Join of two elements: empty elements are ignored and the result
\* is cleaned.
filepathJoin(a, b) ==
    IF a = "" /\ b = "" THEN ""
    ELSE IF a = "" THEN Clean(b)
    ELSE IF b = "" THEN Clean(a)
    ELSE Clean(a \o "/" \o b)

\* A loop that writes each value at the prefix followed by the key.
addPrefixLoopUnseparated(prefix, files, order, updated) ==
    [p \in {prefix \o k : k \in DOMAIN files} |->
        files[CHOOSE k \in DOMAIN files : prefix \o k = p]]

\* The loop of addPrefixToResources over the keys in the order the map
\* yields them; a later write to a key replaces an earlier one.
RECURSIVE addPrefixLoop(_, _, _, _)
addPrefixLoop(prefix, files, order, updated) ==
    IF order = <<>> THEN updated
    ELSE addPrefixLoop(prefix, files, Tail(order),
                       (filepathJoin(prefix, Head(order)) :> files[Head(order)]) @@ updated)

\* An order in which a map yields its keys.
RECURSIVE KeyOrder(_)
KeyOrder(keys) ==
    IF keys = {} THEN <<>>
    ELSE LET k == CHOOSE x \in keys : TRUE
         IN <<k>> \o KeyOrder(keys \ {k})

\* addPrefixToResources as Bootstrap calls it: on the maps it passes no two
\* keys are written to one path, so the order of the keys does not matter.
addPrefixToResources(prefix, files) ==
    addPrefixLoop(prefix, files, KeyOrder(DOMAIN files), EmptyMap)

\* A file list that misses the first file name.
getResourceFilesDropsFirst(r) == Tail(SortStrings(DOMAIN r))

getResourceFiles(r) == SortStrings(DOMAIN r)

\* createInitialFiles once createCICDResources has returned r; the field
\* cicd records what it returned.
initialFilesFrom(manifest, r) ==
    IF r.err # ""
    THEN [err |-> r.err, main |-> Nil, side |-> Nil, cicd |-> r]
    ELSE [err |-> "",
          main |-> Merge(addPrefixToResources(PathForPipelines(manifest.config.pipelines),
                                              getCICDKustomization(getResourceFiles(r.outputs))),
                         Merge(addPrefixToResources(pipelinesPath(manifest.config), r.outputs),
                               (pipelinesFile :> manifest))),
          side |-> r.otherOutputs, cicd |-> r]

createInitialFiles(fs, repo, opts, ext) ==
    initialFilesFrom(
        createManifest(repo.url,
                       [pipelines |-> [name |-> opts.Prefix \o "cicd"], argocd |-> Nil, git |-> Nil],
                       <<>>),
        createCICDResources(fs, repo, [name |-> opts.Prefix \o "cicd"], opts, ext))

(***************************************************************************)
(* The manifest model                                                      *)
(***************************************************************************)
\* repoFromURL: the last path element without its .git suffix.
repoFromURL(u) == IF ~u.parses THEN [err |-> "parse", repo |-> ""] ELSE [err |-> "", repo |-> u.repo]

repoToAppName(repoName) == "app-" \o repoName

defaultPipelines(r) ==
    [integration |-> [template |-> appCITemplateName, bindings |-> <<PushBindingName(r)>>]]

serviceFromRepo(repoURL, secretName, secretNS) ==
    LET r == repoFromURL(repoURL)
    IN IF r.err # "" THEN [err |-> r.err, svc |-> Nil]
       ELSE [err |-> "",
             svc |-> [name |-> r.repo, sourceURL |-> repoURL,
                      webhook |-> [secret |-> [name |-> secretName, ns |-> secretNS]],
                      pipelines |-> Nil]]

applicationFromRepo(repoURL, service) ==
    LET r == repoFromURL(repoURL)
    IN IF r.err # "" THEN [err |-> r.err, app |-> Nil]
       ELSE [err |-> "", app |-> [name |-> repoToAppName(r.repo), services |-> <<service>>]]

\* bootstrapEnvironments: the loop over cicd, dev, stage makes the pipelines
\* config from cicd and appends an environment for dev, then for stage.
bootstrapEnvironments(repo, prefix, secretName, ns) ==
    LET s == serviceFromRepo(repo.url, secretName, ns.cicd)
        a == applicationFromRepo(repo.url, s.svc)
    IN IF s.err # "" THEN [err |-> s.err, envs |-> Nil, config |-> Nil]
       ELSE IF a.err # "" THEN [err |-> a.err, envs |-> Nil, config |-> Nil]
       ELSE [err |-> "",
             envs |-> << [name |-> ns.dev,
                          apps |-> << [a.app EXCEPT !.services = <<s.svc>>] >>,
                          pipelines |-> defaultPipelines(repo)],
                         [name |-> ns.stage, apps |-> <<>>, pipelines |-> Nil] >>,
             config |-> [pipelines |-> [name |-> prefix \o "cicd"],
                         argocd |-> [namespace |-> "argocd"],
                         git |-> Nil]]

\* Manifest.GetEnvironment, as the index of the first environment of that
\* name (0 when there is none), Manifest.GetApplication likewise within the
\* environment, and Manifest.GetPipelinesConfig.
EnvironmentIndex(m, name) ==
    IF \E i \in DOMAIN m.environments : m.environments[i].name = name
    THEN CHOOSE i \in DOMAIN m.environments :
            /\ m.environments[i].name = name
            /\ \A j \in 1..(i - 1) : m.environments[j].name # name
    ELSE 0
GetEnvironment(m, name) ==
    IF EnvironmentIndex(m, name) = 0 THEN Nil ELSE m.environments[EnvironmentIndex(m, name)]
GetApplication(m, envName, appName) ==
    LET env == GetEnvironment(m, envName)
    IN IF env = Nil THEN Nil
       ELSE IF \E i \in DOMAIN env.apps : env.apps[i].name = appName
       THEN env.apps[CHOOSE i \in DOMAIN env.apps :
                        /\ env.apps[i].name = appName
                        /\ \A j \in 1..(i - 1) : env.apps[j].name # appName]
       ELSE Nil
GetPipelinesConfig(m) == IF m.config = Nil THEN Nil ELSE m.config.pipelines

\* bootstrapServiceDeployment.
bootstrapServiceDeployment(dev, app, ext) ==
    LET svc == dev.apps[1].services[1]
        svcBase == Join(Join(PathForService(app, dev, svc.name), "base"), "config")
        containerSvc == [kind |-> "Service", ns |-> dev.name, name |-> svc.name, partOf |-> app.name]
    IN IF ext = "svcRoute" THEN [err |-> "failed to create route", resources |-> Nil]
       ELSE [err |-> "",
             resources |->
                (Join(svcBase, "kustomization.yaml") :>
                    [kind |-> "Kustomization", ptr |-> TRUE, bases |-> <<>>,
                     resources |-> <<"100-deployment.yaml", "200-service.yaml", "300-route.yaml">>])
                @@ (Join(svcBase, "300-route.yaml") :> Resource("Route", dev.name, svc.name))
                @@ (Join(svcBase, "200-service.yaml") :> containerSvc)
                @@ (Join(svcBase, "100-deployment.yaml") :>
                        [kind |-> "Deployment", ns |-> dev.name, name |-> svc.name, partOf |-> app.name])]

\* createSvcImageBinding: the binding's name, its file name under the CICD
\* base directory, and the map holding the binding at that path.
createSvcImageBinding(cfg, env, appName, svcName, imageRepo, isTLSVerify) ==
    LET name == env.name \o "-" \o appName \o "-" \o svcName \o "-binding"
        filename == Join("05-bindings", name \o ".yaml")
    IN [name |-> name, filename |-> filename,
        resources |-> (Join(Join(PathForPipelines(cfg), "base"), filename) :>
                          [kind |-> "TriggerBinding", ns |-> cfg.name, name |-> name,
                           imageRepo |-> imageRepo, tlsVerify |-> isTLSVerify])]

\* imagerepo.CreateInternalRegistryResources: the registry-access role and
\* secret, their file names and the map holding them under the CICD base
\* directory.
CreateInternalRegistryResources(cfg, sa, imageRepo, gitOpsRepoURL, ext) ==
    LET roleFile == "02-rolebindings/internal-registry-image-binding.yaml"
        secretFile == "02-rolebindings/internal-registry-secret.yaml"
        basePath == Join(PathForPipelines(cfg), "base")
    IN IF ext = "internalRegistry" THEN [err |-> "failed", filenames |-> <<>>, resources |-> Nil]
       ELSE [err |-> "", filenames |-> <<roleFile, secretFile>>,
             resources |-> (Join(basePath, roleFile) :>
                                [kind |-> "RoleBinding", ns |-> imageRepo[2],
                                 name |-> "internal-registry-image-binding",
                                 subject |-> [ns |-> sa.ns, name |-> sa.name]])
                           @@ (Join(basePath, secretFile) :>
                                [kind |-> "RegistrySecret", ns |-> cfg.name,
                                 name |-> "internal-registry-secret"])]

(***************************************************************************)
(* bootstrapResources                                                      *)
(***************************************************************************)
\* An error return that hands back the maps built so far.
bootstrapErrorKeepsMaps(err, opts, cicd, main, side) ==
    [err |-> err, main |-> main, side |-> side, opts |-> opts, cicd |-> cicd]

\* The error returns of bootstrapResources: "return nil, nil, err", whatever
\* the maps hold by then. opts is the caller's options object as the call
\* leaves it, cicd what createCICDResources had returned (Nil when not called).
bootstrapError(err, opts, cicd, main, side) ==
    [err |-> err, main |-> Nil, side |-> Nil, opts |-> opts, cicd |-> cicd]

\* An internal-registry step that runs whatever the classification.
internalRegistryStepAlways(isInternalRegistry, cfg, imageRepo, gitOpsRepoURL, main, k, ext) ==
    LET r == CreateInternalRegistryResources(cfg, CreateServiceAccount(cfg.name, saName),
                                             imageRepo, gitOpsRepoURL, ext)
    IN IF r.err # "" THEN [err |-> "failed to get resources for internal image repository",
                           bootstrapped |-> main, k |-> k]
       ELSE [err |-> "", bootstrapped |-> Merge(r.resources, main),
             k |-> AddResources(k, r.filenames)]

\* The internal-registry branch of bootstrapResources.
internalRegistryStep(isInternalRegistry, cfg, imageRepo, gitOpsRepoURL, main, k, ext) ==
    IF isInternalRegistry
    THEN LET r == CreateInternalRegistryResources(cfg, CreateServiceAccount(cfg.name, saName),
                                                  imageRepo, gitOpsRepoURL, ext)
         IN IF r.err # "" THEN [err |-> "failed to get resources for internal image repository",
                                bootstrapped |-> main, k |-> k]
            ELSE [err |-> "", bootstrapped |-> Merge(r.resources, main),
                  k |-> AddResources(k, r.filenames)]
    ELSE [err |-> "", bootstrapped |-> main, k |-> k]

\* A wiring that puts the new binding after the environment's bindings.
serviceIntegrationBindingsAppended(bindingName, devEnv) ==
    [integration |-> [template |-> "",
                      bindings |-> devEnv.pipelines.integration.bindings \o <<bindingName>>]]

\* The Pipelines value bootstrapResources gives the dev service.
serviceIntegrationBindings(bindingName, devEnv) ==
    [integration |-> [template |-> "",
                      bindings |-> <<bindingName>> \o devEnv.pipelines.integration.bindings]]

\* The locals of bootstrapResources as the call starts: ctx.opts is the
\* caller's options object, ctx.main and ctx.side the maps bootstrapped and
\* otherResources, ctx.cicd what createCICDResources returned, ctx.err the
\* error of the return statement reached (a statement after it does nothing).
bootstrapLocals(opts) ==
    [err |-> "", opts |-> opts, ns |-> NamesWithPrefix(opts.Prefix),
     appRepo |-> Nil, repoName |-> "", imageRepo |-> <<>>, isInternalRegistry |-> FALSE,
     gitOpsRepo |-> Nil, appName |-> "", serviceName |-> "", secretName |-> "",
     main |-> Nil, side |-> Nil, cicd |-> Nil, envs |-> Nil, configEnv |-> Nil,
     m |-> Nil, devIdx |-> 0, app |-> Nil, svcFiles |-> Nil, cfg |-> Nil,
     bindingName |-> "", bindingFilename |-> "", kustomizePath |-> "", k |-> Nil]

\* A default image repository written over the one the options name.
resolveServiceRepoAlwaysDefaults(ctx, identifier) ==
    LET appRepo == NewRepository(identifier, ctx.opts.ServiceRepoURL)
        rn == repoFromURL(appRepo.url)
    IN IF appRepo.err # "" THEN [ctx EXCEPT !.err = appRepo.err]
       ELSE IF rn.err # "" THEN [ctx EXCEPT !.err = "invalid app repo URL"]
       ELSE [ctx EXCEPT !.appRepo = appRepo, !.repoName = rn.repo,
                        !.opts = [@ EXCEPT !.ImageRepo = <<ctx.ns.cicd, rn.repo>>]]

\* The service repository, its name and the default image repository.
resolveServiceRepo(ctx, identifier) ==
    LET appRepo == NewRepository(identifier, ctx.opts.ServiceRepoURL)
        rn == repoFromURL(appRepo.url)
    IN IF appRepo.err # "" THEN [ctx EXCEPT !.err = appRepo.err]
       ELSE IF rn.err # "" THEN [ctx EXCEPT !.err = "invalid app repo URL"]
       ELSE [ctx EXCEPT !.appRepo = appRepo, !.repoName = rn.repo,
                        !.opts = IF @.ImageRepo = <<>>
                                 THEN [@ EXCEPT !.ImageRepo = <<ctx.ns.cicd, rn.repo>>]
                                 ELSE @]

\* The classification of the image repository.
classifyImageRepo(ctx) ==
    IF ctx.err # "" THEN ctx
    ELSE LET v == ValidateImageRepo(ctx.opts.ImageRepo)
         IN IF v.err # "" THEN [ctx EXCEPT !.err = v.err]
            ELSE [ctx EXCEPT !.imageRepo = v.imageRepo, !.isInternalRegistry = v.isInternal]

\* The GitOps repository.
resolveGitOpsRepo(ctx, identifier) ==
    IF ctx.err # "" THEN ctx
    ELSE LET gitOpsRepo == NewRepository(identifier, ctx.opts.GitOpsRepoURL)
         IN IF gitOpsRepo.err # "" THEN [ctx EXCEPT !.err = gitOpsRepo.err]
            ELSE [ctx EXCEPT !.gitOpsRepo = gitOpsRepo]

\* The assignment of what createInitialFiles returned.
initialFilesInto(ctx, init) ==
    [ctx EXCEPT !.err = init.err, !.main = init.main, !.side = init.side, !.cicd = init.cicd]

\* The initial files.
makeInitialFiles(ctx, fs, ext) ==
    IF ctx.err # "" THEN ctx
    ELSE initialFilesInto(ctx, createInitialFiles(fs, ctx.gitOpsRepo, ctx.opts, ext))

\* The names and the environments.
makeEnvironments(ctx) ==
    IF ctx.err # "" THEN ctx
    ELSE LET be == bootstrapEnvironments(ctx.appRepo, ctx.opts.Prefix,
                                         MakeServiceWebhookSecretName(ctx.ns.dev, ctx.repoName),
                                         ctx.ns)
         IN [ctx EXCEPT !.err = be.err,
                        !.appName = repoToAppName(ctx.repoName),
                        !.serviceName = ctx.repoName,
                        !.secretName = MakeServiceWebhookSecretName(ctx.ns.dev, ctx.repoName),
                        !.envs = be.envs, !.configEnv = be.config]

\* bootstrapResources up to the environments it builds: the options, names,
\* repositories, initial files and environments the rest works on.
bootstrapResourcesHead(opts, fs, identifier, ext) ==
    makeEnvironments(
      makeInitialFiles(
        resolveGitOpsRepo(
          classifyImageRepo(resolveServiceRepo(bootstrapLocals(opts), identifier)),
          identifier),
        fs, ext))

\* The git drivers of a private host and the manifest, created from the
\* environments envs and the config configEnv.
makeManifest(ctx, envs, configEnv) ==
    IF ctx.err # "" THEN ctx
    ELSE IF ctx.opts.PrivateRepoDriver # "" /\ ~ctx.opts.GitOpsRepoURL.parses
    THEN [ctx EXCEPT !.err = "failed to get hostname from URL"]
    ELSE [ctx EXCEPT !.envs = envs,
                     !.configEnv = IF ctx.opts.PrivateRepoDriver # ""
                                   THEN [configEnv EXCEPT !.git = [host |-> ctx.opts.GitOpsRepoURL.host,
                                                                   driver |-> ctx.opts.PrivateRepoDriver]]
                                   ELSE configEnv,
                     !.m = createManifest(ctx.gitOpsRepo.url,
                                          IF ctx.opts.PrivateRepoDriver # ""
                                          THEN [configEnv EXCEPT !.git = [host |-> ctx.opts.GitOpsRepoURL.host,
                                                                          driver |-> ctx.opts.PrivateRepoDriver]]
                                          ELSE configEnv,
                                          envs)]

\* A lookup that goes on with the first application of the dev environment
\* when the one looked for is missing.
findDevAndAppFallsBack(ctx) ==
    IF ctx.err # "" THEN ctx
    ELSE IF GetEnvironment(ctx.m, ctx.ns.dev) = Nil
    THEN [ctx EXCEPT !.err = "unable to bootstrap without dev environment"]
    ELSE IF GetApplication(ctx.m, ctx.ns.dev, ctx.appName) = Nil
            /\ GetEnvironment(ctx.m, ctx.ns.dev).apps = <<>>
    THEN [ctx EXCEPT !.err = "unable to bootstrap without application"]
    ELSE [ctx EXCEPT !.devIdx = EnvironmentIndex(ctx.m, ctx.ns.dev),
                     !.app = GetEnvironment(ctx.m, ctx.ns.dev).apps[1]]

\* The dev environment and the application.
findDevAndApp(ctx) ==
    IF ctx.err # "" THEN ctx
    ELSE IF GetEnvironment(ctx.m, ctx.ns.dev) = Nil
    THEN [ctx EXCEPT !.err = "unable to bootstrap without dev environment"]
    ELSE IF GetApplication(ctx.m, ctx.ns.dev, ctx.appName) = Nil
    THEN [ctx EXCEPT !.err = "unable to bootstrap without application"]
    ELSE [ctx EXCEPT !.devIdx = EnvironmentIndex(ctx.m, ctx.ns.dev),
                     !.app = GetApplication(ctx.m, ctx.ns.dev, ctx.appName)]

\* The files of the service and its webhook secret.
makeServiceFiles(ctx, ext) ==
    IF ctx.err # "" THEN ctx
    ELSE LET svcFiles == bootstrapServiceDeployment(ctx.m.environments[ctx.devIdx], ctx.app, ext)
         IN IF svcFiles.err # "" THEN [ctx EXCEPT !.err = "failed to create bootstrap service"]
            ELSE IF ext = "opaqueSecret" THEN [ctx EXCEPT !.err = "failed to create secret"]
            ELSE [ctx EXCEPT !.svcFiles = svcFiles.resources]

\* The secret of the service put into the main map.
addServiceSecretIntoMain(ctx) ==
    IF ctx.err # "" THEN ctx
    ELSE IF GetPipelinesConfig(ctx.m) = Nil
    THEN [ctx EXCEPT !.err = "failed to find a pipeline configuration - unable to continue bootstrap"]
    ELSE [ctx EXCEPT !.cfg = GetPipelinesConfig(ctx.m),
                     !.main = (Join("secrets", ctx.secretName \o ".yaml") :>
                                  Secret(ctx.ns.cicd, ctx.secretName, ctx.opts.ServiceWebhookSecret)) @@ @]

\* The pipelines config and the secret put into the side map.
addServiceSecret(ctx) ==
    IF ctx.err # "" THEN ctx
    ELSE IF GetPipelinesConfig(ctx.m) = Nil
    THEN [ctx EXCEPT !.err = "failed to find a pipeline configuration - unable to continue bootstrap"]
    ELSE [ctx EXCEPT !.cfg = GetPipelinesConfig(ctx.m),
                     !.side = (Join("secrets", ctx.secretName \o ".yaml") :>
                                  Secret(ctx.ns.cicd, ctx.secretName, ctx.opts.ServiceWebhookSecret)) @@ @]

\* The assignment of what createSvcImageBinding returned and the merge of
\* its resources.
imageBindingInto(ctx, binding) ==
    [ctx EXCEPT !.bindingName = binding.name, !.bindingFilename = binding.filename,
                !.main = Merge(binding.resources, @)]

\* The image-repository binding.
addImageBinding(ctx) ==
    IF ctx.err # "" THEN ctx
    ELSE imageBindingInto(ctx, createSvcImageBinding(ctx.cfg, ctx.m.environments[ctx.devIdx],
                                                     ctx.appName, ctx.serviceName, ctx.imageRepo,
                                                     ~ctx.isInternalRegistry))

\* The Kustomization of the CICD base directory, taken by value.
findKustomization(ctx) ==
    IF ctx.err # "" THEN ctx
    ELSE LET kustomizePath == Join(Join(PathForPipelines(ctx.cfg), "base"), "kustomization.yaml")
         IN IF /\ kustomizePath \in DOMAIN ctx.main
               /\ ctx.main[kustomizePath].kind = "Kustomization"
               /\ ~ctx.main[kustomizePath].ptr
            THEN [ctx EXCEPT !.kustomizePath = kustomizePath, !.k = ctx.main[kustomizePath]]
            ELSE [ctx EXCEPT !.err = "no kustomization for the environment found"]

\* The assignment of what the internal-registry branch left.
internalRegistryInto(ctx, reg) ==
    [ctx EXCEPT !.err = reg.err, !.main = reg.bootstrapped, !.k = reg.k]

\* The internal-registry branch.
addInternalRegistry(ctx, ext) ==
    IF ctx.err # "" THEN ctx
    ELSE internalRegistryInto(ctx, internalRegistryStep(ctx.isInternalRegistry, ctx.cfg, ctx.imageRepo,
                                                        ctx.opts.GitOpsRepoURL, ctx.main, ctx.k, ext))

\* A finish that does not put the patched Kustomization back into the map.
wireAndFinishDropsPatch(ctx) ==
    IF ctx.err # "" THEN ctx
    ELSE [ctx EXCEPT
            !.m = [@ EXCEPT !.environments[ctx.devIdx].apps[1].services[1].pipelines =
                       serviceIntegrationBindings(ctx.bindingName, ctx.m.environments[ctx.devIdx])],
            !.k = AddResources(@, <<ctx.bindingFilename>>),
            !.main = Merge(ctx.svcFiles,
                           (pipelinesFile :>
                                  [ctx.m EXCEPT !.environments[ctx.devIdx].apps[1].services[1].pipelines =
                                      serviceIntegrationBindings(ctx.bindingName,
                                                                 ctx.m.environments[ctx.devIdx])])
                           @@ @)]

\* A finish that leaves the manifest of createInitialFiles in the map.
wireAndFinishKeepsInitialManifest(ctx) ==
    IF ctx.err # "" THEN ctx
    ELSE [ctx EXCEPT
            !.m = [@ EXCEPT !.environments[ctx.devIdx].apps[1].services[1].pipelines =
                       serviceIntegrationBindings(ctx.bindingName, ctx.m.environments[ctx.devIdx])],
            !.k = AddResources(@, <<ctx.bindingFilename>>),
            !.main = Merge(ctx.svcFiles,
                           (ctx.kustomizePath :> AddResources(ctx.k, <<ctx.bindingFilename>>))
                           @@ @)]

\* The wiring of the binding into the dev service, the manifest and the
\* Kustomization put into the main map, and the merge of the service files.
wireAndFinish(ctx) ==
    IF ctx.err # "" THEN ctx
    ELSE [ctx EXCEPT
            !.m = [@ EXCEPT !.environments[ctx.devIdx].apps[1].services[1].pipelines =
                       serviceIntegrationBindings(ctx.bindingName, ctx.m.environments[ctx.devIdx])],
            !.k = AddResources(@, <<ctx.bindingFilename>>),
            !.main = Merge(ctx.svcFiles,
                           (ctx.kustomizePath :> AddResources(ctx.k, <<ctx.bindingFilename>>))
                           @@ (pipelinesFile :>
                                  [ctx.m EXCEPT !.environments[ctx.devIdx].apps[1].services[1].pipelines =
                                      serviceIntegrationBindings(ctx.bindingName,
                                                                 ctx.m.environments[ctx.devIdx])])
                           @@ @)]

\* The return statement reached.
bootstrapReturn(ctx) ==
    IF ctx.err # "" THEN bootstrapError(ctx.err, ctx.opts, ctx.cicd, ctx.main, ctx.side)
    ELSE [err |-> "", main |-> ctx.main, side |-> ctx.side, opts |-> ctx.opts, cicd |-> ctx.cicd]

\* bootstrapResources from the environments on: h is what the first part
\* computed, envs and configEnv the environments and config the manifest is
\* created from.
bootstrapResourcesTail(h, envs, configEnv, ext) ==
    bootstrapReturn(
      wireAndFinish(
        addInternalRegistry(
          findKustomization(
            addImageBinding(
              addServiceSecret(
                makeServiceFiles(findDevAndApp(makeManifest(h, envs, configEnv)), ext)))),
          ext)))

\* The rest of bootstrapResources on the environments the first part built.
bootstrapResourcesFrom(h, ext) == bootstrapResourcesTail(h, h.envs, h.configEnv, ext)

bootstrapResources(opts, fs, identifier, ext) ==
    bootstrapResourcesFrom(bootstrapResourcesHead(opts, fs, identifier, ext), ext)

(***************************************************************************)
(* buildResources and the steps of Bootstrap                               *)
(***************************************************************************)
\* environments.Build, buildEventListenerResources and argocd.Build: the
\* files of every environment, the event listener rebuilt from the manifest
\* at its path under the CICD base directory, and the ArgoCD applications.
environmentsBuild(m, appLinks) ==
    [p \in {Join(Join("environments", m.environments[i].name), "env/base/kustomization.yaml") :
                i \in DOMAIN m.environments} |->
        [kind |-> "Kustomization", ptr |-> TRUE, resources |-> <<>>, bases |-> <<>>,
         appLinks |-> appLinks]]
buildEventListenerResources(gitOpsURL, m) ==
    LET cfg == GetPipelinesConfig(m)
    IN IF cfg = Nil THEN EmptyMap
       ELSE (Join(Join(PathForPipelines(cfg), "base"), eventListenerPath) :>
                [kind |-> "EventListener", ns |-> cfg.name, name |-> "cicd-event-listener",
                 sa |-> saName, secret |-> "gitops-webhook-secret", gitOpsURL |-> gitOpsURL])
argocdBuild(gitOpsURL, m) ==
    ("config/argocd/kustomization.yaml" :>
        [kind |-> "Kustomization", ptr |-> TRUE, resources |-> <<>>, bases |-> <<>>])

\* buildResources; ext names the builder that fails in this run.
buildResources(m, ext) ==
    LET resources0 == EmptyMap
        argoCD == IF m.config = Nil THEN Nil ELSE m.config.argocd
        appLinks == IF argoCD # Nil THEN "AppsToEnvironments" ELSE "EnvironmentsToApps"
    IN
    IF ext = "environments" THEN [err |-> "environments", resources |-> Nil]
    ELSE
    LET resources1 == Merge(environmentsBuild(m, appLinks), resources0)
    IN
    IF ext = "eventListener" THEN [err |-> "eventlistener", resources |-> Nil]
    ELSE
    LET resources2 == Merge(buildEventListenerResources(m.gitOpsURL, m), resources1)
    IN
    IF ext = "argocd" THEN [err |-> "argocd", resources |-> Nil]
    ELSE [err |-> "", resources |-> Merge(argocdBuild(m.gitOpsURL, m), resources2)]

\* ioutils.IsExisting on a path relative to the output path.
IsExisting(fs, path) ==
    \/ path \in fs.existing
    \/ path \in DOMAIN fs.main
    \/ path = "../secrets" /\ DOMAIN fs.side # {}

\* errorIfFileExists: the first file of the list that exists.
RECURSIVE errorIfFileExists(_, _)
errorIfFileExists(fs, files) ==
    IF files = <<>> THEN ""
    ELSE IF IsExisting(fs, Head(files)) THEN Head(files) \o " in output path already exists"
    ELSE errorIfFileExists(fs, Tail(files))

\* A pre-flight check that reads the overwrite flag the wrong way round.
checkPipelinesFileExistsInverted(fs, overWrite, pushToGit) ==
    IF ~overWrite THEN ""
    ELSE LET checkList == <<pipelinesFile>> \o (IF pushToGit THEN <<".git">> ELSE <<>>)
             e == errorIfFileExists(fs, checkList)
         IN IF e # "" THEN e
            ELSE IF IsExisting(fs, "../secrets")
            THEN "the secrets folder located as a sibling of the output folder already exists"
            ELSE ""

checkPipelinesFileExists(fs, overWrite, pushToGit) ==
    IF overWrite THEN ""
    ELSE LET checkList == <<pipelinesFile>> \o (IF pushToGit THEN <<".git">> ELSE <<>>)
             e == errorIfFileExists(fs, checkList)
         IN IF e # "" THEN e
            ELSE IF IsExisting(fs, "../secrets")
            THEN "the secrets folder located as a sibling of the output folder already exists"
            ELSE ""

webhookSecretLength == 20

\* One call of secrets.GenerateString: the length asked for and the string
\* returned ("" for an error).
GenerateString(length, g) == <<[length |-> length, returned |-> g]>>

\* A maybeMakeHookSecrets that generates both secrets whatever was supplied.
maybeMakeHookSecretsAlways(opts, g1, g2) ==
    IF g1 = ""
    THEN [err |-> "failed to generate GitOps webhook secret", opts |-> opts,
          calls |-> GenerateString(webhookSecretLength, g1)]
    ELSE IF g2 = ""
    THEN [err |-> "failed to generate application webhook secret",
          opts |-> [opts EXCEPT !.GitOpsWebhookSecret = g1],
          calls |-> GenerateString(webhookSecretLength, g1) \o GenerateString(webhookSecretLength, g2)]
    ELSE [err |-> "",
          opts |-> [opts EXCEPT !.GitOpsWebhookSecret = g1, !.ServiceWebhookSecret = g2],
          calls |-> GenerateString(webhookSecretLength, g1) \o GenerateString(webhookSecretLength, g2)]

\* A maybeMakeHookSecrets that asks for both strings before it looks at the
\* first error.
maybeMakeHookSecretsEager(opts, g1, g2) ==
    LET calls == (IF opts.GitOpsWebhookSecret = "" THEN GenerateString(webhookSecretLength, g1) ELSE <<>>)
                 \o (IF opts.ServiceWebhookSecret = "" THEN GenerateString(webhookSecretLength, g2) ELSE <<>>)
    IN IF opts.GitOpsWebhookSecret = "" /\ g1 = ""
       THEN [err |-> "failed to generate GitOps webhook secret", opts |-> opts, calls |-> calls]
       ELSE
       LET opts1 == IF opts.GitOpsWebhookSecret = ""
                    THEN [opts EXCEPT !.GitOpsWebhookSecret = g1] ELSE opts
       IN IF opts1.ServiceWebhookSecret = "" /\ g2 = ""
          THEN [err |-> "failed to generate application webhook secret", opts |-> opts1, calls |-> calls]
          ELSE [err |-> "",
                opts |-> IF opts1.ServiceWebhookSecret = ""
                         THEN [opts1 EXCEPT !.ServiceWebhookSecret = g2] ELSE opts1,
                calls |-> calls]

\* maybeMakeHookSecrets; g1 and g2 are what secrets.GenerateString returns
\* when called ("" for a failure); calls are the calls of it that were made.
maybeMakeHookSecrets(opts, g1, g2) ==
    IF opts.GitOpsWebhookSecret = "" /\ g1 = ""
    THEN [err |-> "failed to generate GitOps webhook secret", opts |-> opts,
          calls |-> GenerateString(webhookSecretLength, g1)]
    ELSE
    LET opts1 == IF opts.GitOpsWebhookSecret = ""
                 THEN [opts EXCEPT !.GitOpsWebhookSecret = g1] ELSE opts
        calls1 == IF opts.GitOpsWebhookSecret = ""
                  THEN GenerateString(webhookSecretLength, g1) ELSE <<>>
    IN IF opts1.ServiceWebhookSecret = "" /\ g2 = ""
       THEN [err |-> "failed to generate application webhook secret", opts |-> opts1,
             calls |-> calls1 \o GenerateString(webhookSecretLength, g2)]
       ELSE [err |-> "",
             opts |-> IF opts1.ServiceWebhookSecret = ""
                      THEN [opts1 EXCEPT !.ServiceWebhookSecret = g2] ELSE opts1,
             calls |-> IF opts1.ServiceWebhookSecret = ""
                       THEN calls1 \o GenerateString(webhookSecretLength, g2) ELSE calls1]

GeneratedStrings == {"", "generated"}
\* secrets.GenerateString returns a random string: an invocation after the
\* first may be given a string the first was not.
GeneratedIn(r) == IF r > 1 THEN GeneratedStrings \cup {"regenerated"} ELSE GeneratedStrings
ResourceFailures == {"none", "githubSecret", "tokenSecret", "script", "route",
                     "svcRoute", "opaqueSecret", "internalRegistry"}
BuildFailures == {"none", "environments", "eventListener", "argocd"}

Logged(step, ok) == Append(log, [step |-> step, ok |-> ok])

\* Bootstrap returns the error: nothing more runs.
Failed(step, e) ==
    /\ pc' = "failed"
    /\ bootstrapErr' = e
    /\ log' = Logged(step, FALSE)

\* Bootstrap, line by line: the pre-flight check,
CheckPipelinesFileExists ==
    /\ pc = "start"
    /\ LET e == checkPipelinesFileExists(fsys, o.Overwrite, o.PushToGit)
       IN IF e # "" THEN Failed("check", e)
          ELSE /\ pc' = "checked"
               /\ log' = Logged("check", TRUE)
               /\ bootstrapErr' = bootstrapErr
    /\ UNCHANGED <<o, defaultIdentifier, fsys, bootstrapped, otherResources, cicdRet,
                   runVars, pruneVars, mergeVars, composeVars, cmdVars, prefixVars, hookVars, retryVars>>

\* the webhook secrets,
MaybeMakeHookSecrets ==
    /\ pc = "checked"
    /\ \E g1, g2 \in GeneratedIn(run) :
          LET r == maybeMakeHookSecrets(o, g1, g2)
          IN /\ o' = r.opts
             /\ IF r.err # "" THEN Failed("secrets", r.err)
                ELSE /\ pc' = "secrets"
                     /\ log' = Logged("secrets", TRUE)
                     /\ bootstrapErr' = bootstrapErr
    /\ UNCHANGED <<defaultIdentifier, fsys, bootstrapped, otherResources, cicdRet,
                   runVars, pruneVars, mergeVars, composeVars, cmdVars, prefixVars, hookVars, retryVars>>

\* bootstrapResources,
BootstrapResources ==
    /\ pc = "secrets"
    /\ \E ext \in ResourceFailures :
          LET r == bootstrapResources(o, fsys, defaultIdentifier, ext)
          IN /\ o' = r.opts
             /\ cicdRet' = r.cicd
             /\ bootstrapped' = r.main
             /\ otherResources' = r.side
             /\ IF r.err # "" THEN Failed("resources", r.err)
                ELSE /\ pc' = "resources"
                     /\ log' = Logged("resources", TRUE)
                     /\ bootstrapErr' = bootstrapErr
    /\ UNCHANGED <<defaultIdentifier, fsys, runVars, pruneVars, mergeVars, composeVars, cmdVars, prefixVars, hookVars, retryVars>>

\* buildResources on the manifest of pipelines.yaml and the merge of its
\* output over the bootstrapped map,
BuildResources ==
    /\ pc = "resources"
    /\ \E ext \in BuildFailures :
          LET built == buildResources(bootstrapped[pipelinesFile], ext)
          IN IF built.err # ""
             THEN /\ Failed("build", "failed to build resources")
                  /\ bootstrapped' = bootstrapped
             ELSE /\ bootstrapped' = Merge(built.resources, bootstrapped)
                  /\ pc' = "built"
                  /\ log' = Logged("build", TRUE)
                  /\ bootstrapErr' = bootstrapErr
    /\ UNCHANGED <<o, defaultIdentifier, fsys, otherResources, cicdRet, runVars, pruneVars, mergeVars, composeVars, cmdVars, prefixVars, hookVars, retryVars>>

\* What yaml.WriteResources leaves of a map when it fails: nothing, or the
\* files written before the failure (here one file: the manifest, or one of
\* the secrets).
PartialWrites(resources) ==
    {EmptyMap} \cup {[p \in {k} |-> resources[k]] :
                        k \in {x \in DOMAIN resources :
                                  x = pipelinesFile \/ SubSeq(x, 1, 8) = "secrets/"}}

\* A write of the main tree that does not wait for buildResources.
WriteMainBeforeBuild ==
    /\ pc \in {"resources", "built"}
    /\ fsys' = [fsys EXCEPT !.main = Merge(bootstrapped, @)]
    /\ pc' = "wroteMain"
    /\ log' = Logged("writeMain", TRUE)
    /\ bootstrapErr' = bootstrapErr
    /\ UNCHANGED <<o, defaultIdentifier, bootstrapped, otherResources, cicdRet,
                   runVars, pruneVars, mergeVars, composeVars, cmdVars, prefixVars, hookVars, retryVars>>

\* the write of the main tree at the output path,
WriteMain ==
    /\ pc = "built"
    /\ \/ /\ fsys' = [fsys EXCEPT !.main = Merge(bootstrapped, @)]
          /\ pc' = "wroteMain"
          /\ log' = Logged("writeMain", TRUE)
          /\ bootstrapErr' = bootstrapErr
       \/ /\ \E w \in PartialWrites(bootstrapped) : fsys' = [fsys EXCEPT !.main = Merge(w, @)]
          /\ Failed("writeMain", "failed to write resources")
    /\ UNCHANGED <<o, defaultIdentifier, bootstrapped, otherResources, cicdRet,
                   runVars, pruneVars, mergeVars, composeVars, cmdVars, prefixVars, hookVars, retryVars>>

\* A write of the side tree that removes the main tree when it fails.
WriteSideUndoesMain ==
    /\ pc = "wroteMain"
    /\ \/ /\ fsys' = [fsys EXCEPT !.side = Merge(otherResources, @)]
          /\ pc' = "done"
          /\ log' = Logged("writeSide", TRUE)
          /\ bootstrapErr' = bootstrapErr
       \/ /\ fsys' = [fsys EXCEPT !.main = EmptyMap]
          /\ Failed("writeSide", "failed to write resources")
    /\ UNCHANGED <<o, defaultIdentifier, bootstrapped, otherResources, cicdRet,
                   runVars, pruneVars, mergeVars, composeVars, cmdVars, prefixVars, hookVars, retryVars>>

\* and the write of the side tree beside it.
WriteSide ==
    /\ pc = "wroteMain"
    /\ \/ /\ fsys' = [fsys EXCEPT !.side = Merge(otherResources, @)]
          /\ pc' = "done"
          /\ log' = Logged("writeSide", TRUE)
          /\ bootstrapErr' = bootstrapErr
       \/ /\ \E w \in PartialWrites(otherResources) : fsys' = [fsys EXCEPT !.side = Merge(w, @)]
          /\ Failed("writeSide", "failed to write resources")
    /\ UNCHANGED <<o, defaultIdentifier, bootstrapped, otherResources, cicdRet,
                   runVars, pruneVars, mergeVars, composeVars, cmdVars, prefixVars, hookVars, retryVars>>

(***************************************************************************)
(* Bounds                                                                  *)
(***************************************************************************)
MaxTasks == 3
MaxRunAfter == 2
NumMergeKeys == 3
MaxBindings == 2
MaxRuns == 2

\* The command is run again on the same output path once an invocation has
\* written both trees: a new process, given the options of the same command
\* line with or without --overwrite, finds the filesystem as it was left.
Rerun ==
    /\ pc = "done"
    /\ run < MaxRuns
    /\ \E ow \in BOOLEAN :
          /\ args' = [args EXCEPT !.Overwrite = ow]
          /\ o' = [args EXCEPT !.Overwrite = ow]
    /\ run' = run + 1
    /\ firstRun' = [main |-> bootstrapped, side |-> otherResources, fsys |-> fsys]
    /\ pc' = "start"
    /\ bootstrapped' = Nil
    /\ otherResources' = Nil
    /\ cicdRet' = Nil
    /\ bootstrapErr' = ""
    /\ log' = <<>>
    /\ UNCHANGED <<defaultIdentifier, fsys, pruneVars, mergeVars, composeVars, cmdVars, prefixVars, hookVars, retryVars>>

(***************************************************************************)
(* The parts of the state a specification does not use stay as they are.   *)
(***************************************************************************)
PruneIdle ==
    /\ pipeline0 = EmptyPipeline
    /\ driver = ""
    /\ pipeline = EmptyPipeline
    /\ pruneDone = FALSE

MergeIdle ==
    /\ overlay = EmptyMap
    /\ base = EmptyMap
    /\ merged = EmptyMap
    /\ mergeDone = FALSE

BootIdle ==
    /\ o = Nil
    /\ defaultIdentifier = Nil
    /\ fsys = Nil
    /\ pc = "idle"
    /\ bootstrapped = Nil
    /\ otherResources = Nil
    /\ cicdRet = Nil
    /\ bootstrapErr = ""
    /\ log = <<>>
    /\ run = 0
    /\ args = Nil
    /\ firstRun = Nil

ComposeIdle ==
    /\ composeIn = Nil
    /\ composeOut = Nil
    /\ composeDone = FALSE

CmdIdle ==
    /\ io = Nil
    /\ cmd = Nil
    /\ keyring = Nil
    /\ saved = <<>>
    /\ cmdPc = "idle"
    /\ cmdErr = ""

PrefixIdle ==
    /\ prefixIn = Nil
    /\ prefixFiles = EmptyMap
    /\ prefixOut = EmptyMap
    /\ prefixDone = FALSE

HookIdle ==
    /\ hookOpts = Nil
    /\ hookCalls = <<>>
    /\ hookErr = ""
    /\ hookN = 0

RetryIdle ==
    /\ repoParams = Nil
    /\ retry = Nil

(***************************************************************************)
(* SpecPrune: removeCommitStatus applied to the pipelines of a bounded set *)
(***************************************************************************)
TaskNames == {"git-clone", "build-image", setPendingStatusTask}
RunAfters == InjSeqs(TaskNames, MaxRunAfter)
\* The pipeline of the task names ns with the runAfter lists ra.
TasksOf(ns, ra) == [i \in DOMAIN ns |-> [name |-> ns[i], runAfter |-> ra[i]]]
FinallyLists == {<<>>, <<"set-final-status">>}
PrivateRepoDrivers == {"", "github", "gitlab"}

InitPrune ==
    /\ \E ns \in InjSeqs(TaskNames, MaxTasks) :
          \E ra \in [DOMAIN ns -> RunAfters], f \in FinallyLists :
              pipeline0 = [tasks |-> TasksOf(ns, ra), finally |-> f]
    /\ driver \in PrivateRepoDrivers
    /\ pipeline = pipeline0
    /\ pruneDone = FALSE
    /\ MergeIdle
    /\ BootIdle
    /\ ComposeIdle
    /\ CmdIdle
    /\ PrefixIdle /\ HookIdle /\ RetryIdle

RemoveCommitStatusCall ==
    /\ ~pruneDone
    /\ pipeline' = removeCommitStatus(pipeline, driver)
    /\ pruneDone' = TRUE
    /\ UNCHANGED <<pipeline0, driver, mergeVars, bootVars, composeVars, cmdVars, prefixVars, hookVars, retryVars>>

NextPrune == RemoveCommitStatusCall

SpecPrune == InitPrune /\ [][NextPrune]_vars

TaskNamesOf(p) == {p.tasks[i].name : i \in DOMAIN p.tasks}
TaskNamed(p, n) == p.tasks[CHOOSE i \in DOMAIN p.tasks : p.tasks[i].name = n]
IndexOfTask(p, n) == CHOOSE i \in DOMAIN p.tasks : p.tasks[i].name = n
FirstIsPending(t) == Len(t.runAfter) > 0 /\ t.runAfter[1] = setPendingStatusTask
NoDanglingEdge(p) ==
    \A i \in DOMAIN p.tasks : Range(p.tasks[i].runAfter) \subseteq TaskNamesOf(p)

\* C1: with an empty driver removeCommitStatus returns the pipeline unchanged;
\* with a non-empty driver the result has no set-pending-status task, an
\* empty finally list, an empty runAfter for every remaining task whose first
\* runAfter entry was set-pending-status, an unchanged runAfter for every other
\* remaining task, and the remaining tasks in their original relative order.
PruneContract ==
    pruneDone =>
        /\ driver = "" => pipeline = pipeline0
        /\ driver # "" =>
            /\ setPendingStatusTask \notin TaskNamesOf(pipeline)
            /\ pipeline.finally = <<>>
            /\ TaskNamesOf(pipeline) = TaskNamesOf(pipeline0) \ {setPendingStatusTask}
            /\ Len(pipeline.tasks) = Cardinality(TaskNamesOf(pipeline))
            /\ \A i \in DOMAIN pipeline.tasks :
                   LET t  == pipeline.tasks[i]
                       t0 == TaskNamed(pipeline0, t.name)
                   IN t.runAfter = IF FirstIsPending(t0) THEN <<>> ELSE t0.runAfter
            /\ \A i, j \in DOMAIN pipeline.tasks :
                   i < j => IndexOfTask(pipeline0, pipeline.tasks[i].name)
                              < IndexOfTask(pipeline0, pipeline.tasks[j].name)

\* C1's case: a non-empty driver, a pipeline with a set-pending-status task, a
\* finally list, a task that ran after set-pending-status and one that ran
\* after another task.
PruneContractWitness ==
    /\ pruneDone
    /\ driver # ""
    /\ pipeline0.finally # <<>>
    /\ Len(pipeline0.tasks) = 3
    /\ pipeline0.tasks[3].name = setPendingStatusTask
    /\ pipeline0.tasks[2].runAfter = <<setPendingStatusTask>>
    /\ pipeline0.tasks[1].runAfter = <<pipeline0.tasks[2].name>>
    /\ Len(pipeline.tasks) = 2

MergeKeyNames == <<"pipelines.yaml", "base/kustomization.yaml",
                   "overlays/kustomization.yaml", "01-namespaces/cicd-environment.yaml",
                   "08-routes/gitops-webhook-event-listener.yaml">>
MergeKeys == {MergeKeyNames[i] : i \in 1..NumMergeKeys}
MergeValues == {[kind |-> "Resource", name |-> "r1"], [kind |-> "Resource", name |-> "r2"]}
MergeMaps == UNION {[D -> MergeValues] : D \in SUBSET MergeKeys}

InitMerge ==
    /\ overlay \in MergeMaps
    /\ base \in MergeMaps
    /\ merged = EmptyMap
    /\ mergeDone = FALSE
    /\ PruneIdle
    /\ BootIdle
    /\ ComposeIdle
    /\ CmdIdle
    /\ PrefixIdle /\ HookIdle /\ RetryIdle

MergeCall ==
    /\ ~mergeDone
    /\ merged' = Merge(overlay, base)
    /\ mergeDone' = TRUE
    /\ UNCHANGED <<overlay, base, pruneVars, bootVars, composeVars, cmdVars, prefixVars, hookVars, retryVars>>

NextMerge == MergeCall

SpecMerge == InitMerge /\ [][NextMerge]_vars

\* C3: the merged map's keys are the union of both key sets, a key of both
\* holds the overlay's (first argument's) value, a key of the base alone keeps
\* the base's value, merge(empty, B) = B and merge(A, empty) = A.
MergePrecedence ==
    mergeDone =>
        /\ DOMAIN merged = DOMAIN overlay \cup DOMAIN base
        /\ \A k \in DOMAIN overlay : merged[k] = overlay[k]
        /\ \A k \in DOMAIN base \ DOMAIN overlay : merged[k] = base[k]
        /\ DOMAIN overlay = {} => merged = base
        /\ DOMAIN base = {} => merged = overlay

\* C3's case: both maps define a key with different values, and the base has
\* a key of its own.
MergePrecedenceWitness ==
    /\ mergeDone
    /\ \E k \in DOMAIN overlay \cap DOMAIN base : overlay[k] # base[k]
    /\ DOMAIN base \ DOMAIN overlay # {}

(***************************************************************************)
(* Spec: one run of Bootstrap on the options of a command line             *)
(***************************************************************************)
GitHubGitOps == [parses |-> TRUE, host |-> "github.com", org |-> "org", repo |-> "gitops", suffix |-> ".git"]
PrivateGitOps == [parses |-> TRUE, host |-> "git.example.com", org |-> "org", repo |-> "gitops", suffix |-> ".git"]
GitHubService == [parses |-> TRUE, host |-> "github.com", org |-> "org", repo |-> "taxi", suffix |-> ".git"]
PrivateService == [parses |-> TRUE, host |-> "git.example.com", org |-> "org", repo |-> "taxi", suffix |-> ".git"]

DockerConfig == "~/.docker/config.json"
ImageRepos == {<<>>, <<"quay.io", "org", "taxi">>, <<"taxi">>}

BootstrapOptionsSet ==
    [GitOpsRepoURL : {GitHubGitOps, PrivateGitOps},
     GitOpsWebhookSecret : {"", "gitops-hook"},
     Prefix : {"", "tst-"},
     DockerConfigJSONFilename : {"", DockerConfig, "missing.json"},
     ImageRepo : ImageRepos,
     GitHostAccessToken : {"", "token"},
     Overwrite : BOOLEAN,
     ServiceRepoURL : {GitHubService, PrivateService},
     ServiceWebhookSecret : {"", "service-hook"},
     PrivateRepoDriver : {"", "gitlab"},
     PushToGit : BOOLEAN]

\* What the output path and its parent hold before the run, with the
\* overwrite and push-to-git flags of the run.
PreflightCases ==
    {[Overwrite |-> FALSE, PushToGit |-> FALSE, existing |-> {}],
     [Overwrite |-> FALSE, PushToGit |-> FALSE, existing |-> {".git"}],
     [Overwrite |-> TRUE, PushToGit |-> FALSE, existing |-> {pipelinesFile, "../secrets"}],
     [Overwrite |-> FALSE, PushToGit |-> FALSE, existing |-> {pipelinesFile, "../secrets"}],
     [Overwrite |-> FALSE, PushToGit |-> FALSE, existing |-> {"../secrets"}],
     [Overwrite |-> FALSE, PushToGit |-> TRUE, existing |-> {".git"}]}

\* Complete sets the process-wide identifier for a private repository driver.
IdentifierOf(opts) ==
    IF opts.PrivateRepoDriver # ""
    THEN [host |-> opts.GitOpsRepoURL.host, driver |-> opts.PrivateRepoDriver]
    ELSE Nil

InitBoot ==
    /\ \E c \in PreflightCases :
          /\ o \in {opts \in BootstrapOptionsSet :
                        opts.Overwrite = c.Overwrite /\ opts.PushToGit = c.PushToGit}
          /\ fsys = [files |-> (DockerConfig :> "auths"), existing |-> c.existing,
                     main |-> EmptyMap, side |-> EmptyMap]
    /\ defaultIdentifier = IdentifierOf(o)
    /\ pc = "start"
    /\ bootstrapped = Nil
    /\ otherResources = Nil
    /\ cicdRet = Nil
    /\ bootstrapErr = ""
    /\ log = <<>>
    /\ run = 1
    /\ args = o
    /\ firstRun = Nil

Init == InitBoot /\ PruneIdle /\ MergeIdle /\ ComposeIdle /\ CmdIdle /\ PrefixIdle /\ HookIdle /\ RetryIdle

Next ==
    \/ CheckPipelinesFileExists
    \/ MaybeMakeHookSecrets
    \/ BootstrapResources
    \/ BuildResources
    \/ WriteMain
    \/ WriteSide

Spec == Init /\ [][Next]_vars

\* createCICDResources has returned its maps without an error.
CICDSucceeded == cicdRet # Nil /\ cicdRet.err = ""

\* bootstrapResources has returned its maps without an error and Bootstrap
\* stands right after the call.
ResourcesBootstrapped == pc = "resources"

\* The driver scm.NewRepository gives the GitOps repository of the options.
GitOpsDriver ==
    IF o.PrivateRepoDriver # "" THEN o.PrivateRepoDriver
    ELSE IF o.GitOpsRepoURL.host = "github.com" THEN "github" ELSE "gitlab"

\* The paths every run of createCICDResources emits.
CICDAlwaysPaths ==
    {"01-namespaces/cicd-environment.yaml",
     "02-rolebindings/pipeline-service-role.yaml",
     "02-rolebindings/pipeline-service-rolebinding.yaml",
     "02-rolebindings/argocd-admin.yaml",
     "03-tasks/deploy-from-source-task.yaml",
     "04-pipelines/ci-dryrun-from-push-pipeline.yaml",
     "04-pipelines/app-ci-pipeline.yaml",
     "06-templates/ci-dryrun-from-push-template.yaml",
     "06-templates/app-ci-build-from-push-template.yaml",
     "07-eventlisteners/cicd-event-listener.yaml",
     "08-routes/gitops-webhook-event-listener.yaml"}

\* The table of the path constants, with the push binding of a GitHub
\* repository.
CICDPathTable ==
    CICDAlwaysPaths \cup {"02-rolebindings/pipeline-service-account.yaml",
                          "03-tasks/set-commit-status-task.yaml",
                          "05-bindings/github-push-binding.yaml"}

\* C4 as stated: whatever the options, the keys of the main map
\* createCICDResources returns are the one fixed table of paths.
CICDKeysOneFixedTable ==
    CICDSucceeded => DOMAIN cicdRet.outputs = CICDPathTable

\* C4, amended: the keys of the main map createCICDResources returns do not
\* depend on the prefix or the image repository; they are the paths every run
\* emits, the push binding named after the GitOps repository's driver, the
\* commit-status task exactly when no private-repo driver is set, and the
\* service account exactly when a docker-config path or an access token is
\* given.
CICDKeysByOptions ==
    CICDSucceeded =>
        DOMAIN cicdRet.outputs =
            CICDAlwaysPaths
            \cup {"05-bindings/" \o GitOpsDriver \o "-push-binding.yaml"}
            \cup (IF o.PrivateRepoDriver = ""
                  THEN {"03-tasks/set-commit-status-task.yaml"} ELSE {})
            \cup (IF o.DockerConfigJSONFilename # "" \/ o.GitHostAccessToken # ""
                  THEN {"02-rolebindings/pipeline-service-account.yaml"} ELSE {})

\* C4's case: createCICDResources has returned for a prefixed run with a
\* private-repo driver on a private host, an external image repository and
\* neither docker config nor access token.
CICDKeysByOptionsWitness ==
    /\ CICDSucceeded
    /\ o.Prefix # ""
    /\ o.PrivateRepoDriver # ""
    /\ o.GitOpsRepoURL.host = "git.example.com"
    /\ Len(o.ImageRepo) = 3
    /\ o.DockerConfigJSONFilename = ""
    /\ o.GitHostAccessToken = ""
    /\ "03-tasks/set-commit-status-task.yaml" \notin DOMAIN cicdRet.outputs

\* The image repository of the options (the default filled in) is classified
\* internal.
InternalRegistry ==
    \/ Len(o.ImageRepo) = 2
    \/ Len(o.ImageRepo) = 3 /\ o.ImageRepo[1] = "image-registry.openshift-image-registry.svc:5000"

\* The CICD base directory of the main map and its Kustomization.
CICDBase == o.Prefix \o "cicd/base/"
CICDBaseKustomization == bootstrapped[CICDBase \o "kustomization.yaml"]

\* The file names of the registry-access resources and of the
\* image-repository binding of the dev service.
RegistryAccessFiles ==
    <<"02-rolebindings/internal-registry-image-binding.yaml",
      "02-rolebindings/internal-registry-secret.yaml">>
ImageBindingFile == "05-bindings/" \o o.Prefix \o "dev-app-taxi-taxi-binding.yaml"

Under(dir, p) == Len(p) > Len(dir) /\ SubSeq(p, 1, Len(dir)) = dir

\* C6: after a successful bootstrapResources, on either registry branch, the
\* Resources list of <cicd>/base/kustomization.yaml names, each once, exactly
\* the resources the main map stores under <cicd>/base/, the
\* kustomization.yaml itself excluded.
KustomizationConsistent ==
    ResourcesBootstrapped =>
        /\ {CICDBase \o CICDBaseKustomization.resources[i] :
                i \in DOMAIN CICDBaseKustomization.resources}
             = {p \in DOMAIN bootstrapped : Under(CICDBase, p)} \ {CICDBase \o "kustomization.yaml"}
        /\ \A i, j \in DOMAIN CICDBaseKustomization.resources :
               i # j => CICDBaseKustomization.resources[i] # CICDBaseKustomization.resources[j]

\* C6's case: bootstrapResources has succeeded on the internal-registry
\* branch, whose files were added to the Kustomization after the initial
\* ones.
KustomizationConsistentWitness ==
    /\ ResourcesBootstrapped
    /\ InternalRegistry
    /\ o.Prefix # ""
    /\ Len(CICDBaseKustomization.resources) > Cardinality(DOMAIN cicdRet.outputs)
    /\ CICDBase \o RegistryAccessFiles[2] \in DOMAIN bootstrapped

\* The steps of Bootstrap before its writes, in the order of the code.
StepsBeforeWrite == <<"check", "secrets", "resources", "build">>

\* C7: a write to the filesystem happens only after the pre-flight check, the
\* webhook secrets, bootstrapResources and buildResources have all succeeded,
\* in that order; a run one of them fails ends with an error and an untouched
\* filesystem.
WriteOnlyAfterBuild ==
    /\ \A i \in DOMAIN log :
           log[i].step \in {"writeMain", "writeSide"} =>
               /\ i > Len(StepsBeforeWrite)
               /\ \A j \in DOMAIN StepsBeforeWrite :
                      log[j].step = StepsBeforeWrite[j] /\ log[j].ok
    /\ (DOMAIN fsys.main # {} \/ DOMAIN fsys.side # {}) =>
           \E i \in DOMAIN log : log[i].step \in {"writeMain", "writeSide"}
    /\ (pc = "failed" /\ log[Len(log)].step \in Range(StepsBeforeWrite)) =>
           /\ bootstrapErr # ""
           /\ DOMAIN fsys.main = {}
           /\ DOMAIN fsys.side = {}

\* C7's case: the run has written both trees after the four steps.
WriteOnlyAfterBuildWitness ==
    /\ pc = "done"
    /\ Len(log) = 6
    /\ pipelinesFile \in DOMAIN fsys.main
    /\ DOMAIN fsys.side # {}

\* C8: when bootstrapResources returns an error, both maps it returns are
\* nil, also when createCICDResources had filled part of the side map before
\* it failed.
FailFastNoPartialOutput ==
    (pc = "failed" /\ log[Len(log)].step = "resources") =>
        /\ bootstrapErr # ""
        /\ bootstrapped = Nil
        /\ otherResources = Nil

\* C8's case: bootstrapResources has failed after createCICDResources had put
\* a secret into the side map it returned with its error.
FailFastNoPartialOutputWitness ==
    /\ pc = "failed"
    /\ log[Len(log)].step = "resources"
    /\ cicdRet # Nil
    /\ cicdRet.err # ""
    /\ cicdRet.otherOutputs # Nil
    /\ "secrets/gitops-webhook-secret.yaml" \in DOMAIN cicdRet.otherOutputs
    /\ otherResources = Nil

GitOpsSecretFile == "secrets/gitops-webhook-secret.yaml"
ServiceSecretFile == "secrets/webhook-secret-" \o args.Prefix \o "dev-taxi.yaml"

\* Bootstrap has returned to its caller.
BootstrapReturned == pc \in {"done", "failed"}

\* The fields of the caller's options that Bootstrap writes to.
FilledFields == {"GitOpsWebhookSecret", "ServiceWebhookSecret", "ImageRepo"}

\* C12 as stated: when Bootstrap has returned, with or without an error, the
\* caller's options hold what they held at the call, field by field, and so
\* does the process-wide driver identifier.
BootstrapLeavesCallerState ==
    BootstrapReturned =>
        /\ o = args
        /\ defaultIdentifier = IdentifierOf(args)

\* C12, amended: Bootstrap never changes the process-wide driver identifier
\* nor any field of the caller's options but GitOpsWebhookSecret,
\* ServiceWebhookSecret and ImageRepo; of these it changes only the empty
\* ones, to a generated secret and to the default <prefix>cicd/<repository>,
\* and after a successful return the caller finds all three filled in.
BootstrapOnlyFillsCallerOptions ==
    /\ defaultIdentifier = IdentifierOf(args)
    /\ \A f \in DOMAIN args \ FilledFields : o[f] = args[f]
    /\ o.GitOpsWebhookSecret \in
           IF args.GitOpsWebhookSecret = "" THEN {"", "generated"} ELSE {args.GitOpsWebhookSecret}
    /\ o.ServiceWebhookSecret \in
           IF args.ServiceWebhookSecret = "" THEN {"", "generated"} ELSE {args.ServiceWebhookSecret}
    /\ o.ImageRepo \in
           IF args.ImageRepo = <<>> THEN {<<>>, <<args.Prefix \o "cicd", args.ServiceRepoURL.repo>>}
           ELSE {args.ImageRepo}
    /\ pc = "done" =>
           /\ o.GitOpsWebhookSecret # ""
           /\ o.ServiceWebhookSecret # ""
           /\ o.ImageRepo # <<>>

\* C12's case: Bootstrap has returned without an error to a caller whose
\* options left both webhook secrets and the image repository empty, and the
\* caller's options now hold the generated secrets and the default image
\* repository.
BootstrapOnlyFillsCallerOptionsWitness ==
    /\ pc = "done"
    /\ args.GitOpsWebhookSecret = ""
    /\ args.ServiceWebhookSecret = ""
    /\ args.ImageRepo = <<>>
    /\ o.GitOpsWebhookSecret = "generated"
    /\ o.ServiceWebhookSecret = "generated"
    /\ o.ImageRepo = <<args.Prefix \o "cicd", "taxi">>

\* A pipeline as the pipeline package builds it: it runs set-pending-status
\* and has finally tasks.
ReportsCommitStatus(p) ==
    /\ \E i \in 1..Len(p.tasks) : p.tasks[i].name = setPendingStatusTask
    /\ p.finally # <<>>

\* A pipeline that names nothing of the commit-status machinery.
FreeOfCommitStatus(p) ==
    /\ \A i \in 1..Len(p.tasks) :
          /\ p.tasks[i].name # setPendingStatusTask
          /\ \A j \in 1..Len(p.tasks[i].runAfter) : p.tasks[i].runAfter[j] # setPendingStatusTask
    /\ p.finally = <<>>

\* C15: in the resources a successful createCICDResources returns, the
\* commit-status task file is present exactly when PrivateRepoDriver is empty;
\* when the file is present both CI pipelines are as built (they run
\* set-pending-status and have their finally tasks), and when it is absent
\* both are pruned and name nothing of the commit-status machinery.
CommitStatusTaskIffNoDriver ==
    CICDSucceeded =>
        LET out == cicdRet.outputs
        IN /\ commitStatusTaskPath \in DOMAIN out <=> o.PrivateRepoDriver = ""
           /\ \A path \in {ciPipelinesPath, appCiPipelinesPath} :
                 /\ path \in DOMAIN out
                 /\ commitStatusTaskPath \in DOMAIN out => ReportsCommitStatus(out[path])
                 /\ commitStatusTaskPath \notin DOMAIN out => FreeOfCommitStatus(out[path])

\* C15's case: createCICDResources has succeeded for a private driver; the task
\* file is omitted and the app-ci pipeline runs two tasks and no finally task.
CommitStatusTaskIffNoDriverWitness ==
    /\ CICDSucceeded
    /\ o.PrivateRepoDriver # ""
    /\ commitStatusTaskPath \notin DOMAIN cicdRet.outputs
    /\ Len(cicdRet.outputs[appCiPipelinesPath].tasks) = 2
    /\ cicdRet.outputs[appCiPipelinesPath].finally = <<>>

\* createCICDResources has been called and has returned.
CICDReturned == cicdRet # Nil

\* The options name a docker-config file, and whether it can be opened.
DockerConfigSupplied == o.DockerConfigJSONFilename # ""
DockerConfigOpenable == o.DockerConfigJSONFilename \in DOMAIN fsys.files

\* The errors of the docker-config step.
DockerConfigErrors ==
    {"failed to read Docker config",
     "failed to generate path to file: --dockerconfigjson flag is not provided"}

\* C16: whenever createCICDResources returns a side map, it holds
\* secrets/docker-config.yaml if and only if a docker-config path was
\* supplied and the file could be opened; with a path whose file cannot be
\* opened createCICDResources returns an error and neither map; with an empty
\* path no error of the docker-config step is returned.
DockerSecretIffOpenable ==
    CICDReturned =>
        /\ cicdRet.otherOutputs # Nil =>
               ("secrets/docker-config.yaml" \in DOMAIN cicdRet.otherOutputs
                    <=> DockerConfigSupplied /\ DockerConfigOpenable)
        /\ DockerConfigSupplied /\ ~DockerConfigOpenable =>
               /\ cicdRet.err # ""
               /\ cicdRet.outputs = Nil
               /\ cicdRet.otherOutputs = Nil
        /\ ~DockerConfigSupplied => cicdRet.err \notin DockerConfigErrors
        /\ cicdRet.err \in DockerConfigErrors => DockerConfigSupplied /\ ~DockerConfigOpenable

\* C16's cases: createCICDResources has failed on a docker-config file that
\* cannot be opened, with the error of that step and without maps.
DockerSecretIffOpenableWitness ==
    /\ CICDReturned
    /\ DockerConfigSupplied
    /\ ~DockerConfigOpenable
    /\ cicdRet.err = "failed to read Docker config"
    /\ cicdRet.outputs = Nil
    /\ cicdRet.otherOutputs = Nil
    /\ pc = "failed"

\* The side map holds at path a Secret whose data is the given material.
SideHoldsSecret(path, material) ==
    /\ path \in DOMAIN otherResources
    /\ otherResources[path].kind = "Secret"
    /\ otherResources[path].data = material

\* The user-provided secret material of the run: the webhook secrets, the
\* access token and the content of the docker-config file.
SecretMaterial ==
    {o.GitOpsWebhookSecret, o.ServiceWebhookSecret, o.GitHostAccessToken}
        \cup {fsys.files[f] : f \in DOMAIN fsys.files}

\* C17: in the two maps a successful bootstrapResources returns, every key of
\* the side map lies under secrets/, no key of the main map does, the key sets
\* are disjoint, no resource of the main map is a Secret or carries secret
\* data, and the Secrets of the GitOps webhook secret, the service webhook
\* secret, the docker config, the access token and the basic-auth token are
\* in the side map with the material the user provided.
MainSideSplit ==
    ResourcesBootstrapped =>
        /\ \A k \in DOMAIN otherResources : Under("secrets/", k)
        /\ \A k \in DOMAIN bootstrapped : ~Under("secrets/", k)
        /\ DOMAIN bootstrapped \cap DOMAIN otherResources = {}
        /\ \A k \in DOMAIN bootstrapped :
              /\ bootstrapped[k].kind # "Secret"
              /\ "data" \notin DOMAIN bootstrapped[k]
        /\ SideHoldsSecret("secrets/gitops-webhook-secret.yaml", o.GitOpsWebhookSecret)
        /\ SideHoldsSecret(ServiceSecretFile, o.ServiceWebhookSecret)
        /\ DockerConfigSupplied =>
              SideHoldsSecret("secrets/docker-config.yaml", fsys.files[o.DockerConfigJSONFilename])
        /\ o.GitHostAccessToken # "" =>
              /\ SideHoldsSecret("secrets/git-host-access-token.yaml", o.GitHostAccessToken)
              /\ SideHoldsSecret("secrets/git-host-basic-auth-token.yaml", o.GitHostAccessToken)
        /\ \A k \in DOMAIN otherResources :
              otherResources[k].kind = "Secret" /\ otherResources[k].data \in SecretMaterial

\* C17's case: bootstrapResources has succeeded on options with a docker
\* config and an access token; the side map holds the five secrets and the
\* main map holds the manifest.
MainSideSplitWitness ==
    /\ ResourcesBootstrapped
    /\ DockerConfigSupplied
    /\ o.GitHostAccessToken # ""
    /\ Cardinality(DOMAIN otherResources) = 5
    /\ pipelinesFile \in DOMAIN bootstrapped


(***************************************************************************)
(* SpecCompose: the part of bootstrapResources that works on the manifest, *)
(* applied to the manifest models of a bounded set                         *)
(***************************************************************************)
ComposeOptions ==
    {opts \in BootstrapOptionsSet :
        /\ ~opts.Overwrite
        /\ ~opts.PushToGit
        /\ opts.DockerConfigJSONFilename = ""
        /\ opts.GitHostAccessToken = ""
        /\ opts.GitOpsWebhookSecret # ""
        /\ opts.ServiceWebhookSecret # ""
        /\ opts.ServiceRepoURL = GitHubService}

\* The integration bindings of a dev environment.
ComposeBindings == InjSeqs({"github-push-binding", "x", "y"}, MaxBindings)

\* The environments of a manifest: none, stage alone, or dev and stage, dev
\* with the application of the service repository, another one or none.
ComposeEnvironments(opts) ==
    LET ns == NamesWithPrefix(opts.Prefix)
        svc == [name |-> "taxi", sourceURL |-> opts.ServiceRepoURL,
                webhook |-> [secret |-> [name |-> MakeServiceWebhookSecretName(ns.dev, "taxi"),
                                         ns |-> ns.cicd]],
                pipelines |-> Nil]
        stage == [name |-> ns.stage, apps |-> <<>>, pipelines |-> Nil]
    IN {<<>>, <<stage>>}
       \cup {<< [name |-> ns.dev, apps |-> apps,
                 pipelines |-> [integration |-> [template |-> appCITemplateName, bindings |-> b]]],
               stage >> :
                apps \in {<<[name |-> "app-taxi", services |-> <<svc>>]>>,
                          <<[name |-> "app-bus", services |-> <<svc>>]>>,
                          <<>>},
                b \in ComposeBindings}

\* The config of a manifest, with or without its pipelines config.
ComposeConfigs(opts) ==
    {[pipelines |-> pl, argocd |-> [namespace |-> "argocd"], git |-> Nil] :
        pl \in {[name |-> opts.Prefix \o "cicd"], Nil}}

ComposeFs == [files |-> (DockerConfig :> "auths"), existing |-> {},
              main |-> EmptyMap, side |-> EmptyMap]
ComposeFailures == {"none", "svcRoute", "opaqueSecret", "internalRegistry"}

InitCompose ==
    /\ \E opts \in ComposeOptions :
          \E envs \in ComposeEnvironments(opts), cfg \in ComposeConfigs(opts) :
              composeIn = [opts |-> opts, envs |-> envs, configEnv |-> cfg]
    /\ composeOut = Nil
    /\ composeDone = FALSE
    /\ PruneIdle
    /\ MergeIdle
    /\ BootIdle
    /\ CmdIdle
    /\ PrefixIdle /\ HookIdle /\ RetryIdle

\* What the call returns once the first part of bootstrapResources has left h.
Composed(h, in, ext) ==
    [headErr |-> h.err, ext |-> ext, ret |-> bootstrapResourcesTail(h, in.envs, in.configEnv, ext)]

ComposeCall ==
    /\ ~composeDone
    /\ \E ext \in ComposeFailures :
          composeOut' = Composed(bootstrapResourcesHead(composeIn.opts, ComposeFs,
                                                        IdentifierOf(composeIn.opts), ext),
                                 composeIn, ext)
    /\ composeDone' = TRUE
    /\ UNCHANGED <<composeIn, pruneVars, mergeVars, bootVars, cmdVars, prefixVars, hookVars, retryVars>>

NextCompose == ComposeCall

SpecCompose == InitCompose /\ [][NextCompose]_vars

\* The place of the dev environment among the environments composed on (0
\* when there is none), and the name of the application looked for.
ComposeDevIndex ==
    IF \E i \in DOMAIN composeIn.envs : composeIn.envs[i].name = composeIn.opts.Prefix \o "dev"
    THEN CHOOSE i \in DOMAIN composeIn.envs : composeIn.envs[i].name = composeIn.opts.Prefix \o "dev"
    ELSE 0
ComposeNoDev == ComposeDevIndex = 0
ComposeNoApp ==
    /\ ~ComposeNoDev
    /\ \A a \in DOMAIN composeIn.envs[ComposeDevIndex].apps :
           composeIn.envs[ComposeDevIndex].apps[a].name # "app-taxi"
ComposeNoPipelinesConfig == composeIn.configEnv.pipelines = Nil

\* C9: once the manifest is created, a missing dev environment, a missing
\* application in it or a missing pipelines config makes the composition fail
\* with the error of that precondition and return neither map; so does a
\* manifest of zero environments.
PreconditionFailuresFatal ==
    (composeDone /\ composeOut.headErr = "") =>
        /\ ComposeNoDev => composeOut.ret.err = "unable to bootstrap without dev environment"
        /\ ComposeNoApp => composeOut.ret.err = "unable to bootstrap without application"
        /\ (~ComposeNoDev /\ ~ComposeNoApp /\ ComposeNoPipelinesConfig) =>
               /\ composeOut.ret.err # ""
               /\ composeOut.ext = "none" =>
                      composeOut.ret.err =
                          "failed to find a pipeline configuration - unable to continue bootstrap"
        /\ (ComposeNoDev \/ ComposeNoApp \/ ComposeNoPipelinesConfig) =>
               /\ composeOut.ret.main = Nil
               /\ composeOut.ret.side = Nil

\* C9's case: the composition has run on a manifest of zero environments and
\* returned the dev-environment error and no map.
PreconditionFailuresFatalWitness ==
    /\ composeDone
    /\ composeOut.headErr = ""
    /\ composeIn.envs = <<>>
    /\ composeOut.ret.err = "unable to bootstrap without dev environment"
    /\ composeOut.ret.main = Nil
    /\ composeOut.ret.side = Nil

\* C10: after a successful composition the integration bindings of the dev
\* service are the new image-repository binding followed by the bindings that
\* existed, in their order.
BindingPrecedence ==
    (composeDone /\ composeOut.ret.err = "") =>
        composeOut.ret.main[pipelinesFile].environments[ComposeDevIndex].apps[1].services[1]
            .pipelines.integration.bindings
          = <<composeIn.opts.Prefix \o "dev-app-taxi-taxi-binding">>
                \o composeIn.envs[ComposeDevIndex].pipelines.integration.bindings

\* C10's case: the existing bindings were x, y and the service now has the
\* new binding, x, y.
BindingPrecedenceWitness ==
    /\ composeDone
    /\ composeOut.ret.err = ""
    /\ composeIn.envs[ComposeDevIndex].pipelines.integration.bindings = <<"x", "y">>
    /\ composeOut.ret.main[pipelinesFile].environments[ComposeDevIndex].apps[1].services[1]
           .pipelines.integration.bindings
         = <<composeIn.opts.Prefix \o "dev-app-taxi-taxi-binding", "x", "y">>

(***************************************************************************)
(* SpecRerun: Bootstrap invoked again on the output path of a run that has *)
(* written both trees                                                      *)
(***************************************************************************)
RerunOptions ==
    {opts \in BootstrapOptionsSet :
        /\ ~opts.Overwrite
        /\ ~opts.PushToGit
        /\ opts.ServiceRepoURL = GitHubService
        /\ opts.DockerConfigJSONFilename # "missing.json"
        /\ opts.ImageRepo # <<"taxi">>}

InitRerun ==
    /\ o \in RerunOptions
    /\ fsys = [files |-> (DockerConfig :> "auths"), existing |-> {},
               main |-> EmptyMap, side |-> EmptyMap]
    /\ defaultIdentifier = IdentifierOf(o)
    /\ pc = "start"
    /\ bootstrapped = Nil
    /\ otherResources = Nil
    /\ cicdRet = Nil
    /\ bootstrapErr = ""
    /\ log = <<>>
    /\ run = 1
    /\ args = o
    /\ firstRun = Nil
    /\ PruneIdle
    /\ MergeIdle
    /\ ComposeIdle
    /\ CmdIdle
    /\ PrefixIdle /\ HookIdle /\ RetryIdle

NextRerun ==
    \/ CheckPipelinesFileExists
    \/ MaybeMakeHookSecrets
    \/ BootstrapResources
    \/ BuildResources
    \/ WriteMain
    \/ WriteSide
    \/ Rerun

SpecRerun == InitRerun /\ [][NextRerun]_vars

\* This invocation follows one on the same command line and has composed
\* both of its maps.
ComposedAgain == run > 1 /\ pc = "built"


\* C11 as stated: an invocation on the options of the invocation before it
\* composes the same main map and the same side map, key by key and value by
\* value, the resource lists of the Kustomizations in the same order.
ComposedTwiceIdentical ==
    ComposedAgain =>
        /\ bootstrapped = firstRun.main
        /\ otherResources = firstRun.side

\* C11, amended: the two invocations compose the same main map (the
\* resource lists of its Kustomizations in the same order) and side maps of
\* the same keys; the values of the side map are the same too, but for the
\* webhook secret of a repository whose secret the options leave empty, which
\* each invocation generates anew.
ComposedTwiceButGeneratedSecrets ==
    ComposedAgain =>
        /\ bootstrapped = firstRun.main
        /\ DOMAIN otherResources = DOMAIN firstRun.side
        /\ \A k \in DOMAIN otherResources \ {GitOpsSecretFile, ServiceSecretFile} :
               otherResources[k] = firstRun.side[k]
        /\ args.GitOpsWebhookSecret # "" =>
               otherResources[GitOpsSecretFile] = firstRun.side[GitOpsSecretFile]
        /\ args.ServiceWebhookSecret # "" =>
               otherResources[ServiceSecretFile] = firstRun.side[ServiceSecretFile]

\* C11's case: the options leave the GitOps webhook secret empty, the two
\* invocations were given different generated strings, and the main maps are
\* the same.
ComposedTwiceButGeneratedSecretsWitness ==
    /\ ComposedAgain
    /\ args.GitOpsWebhookSecret = ""
    /\ args.ServiceWebhookSecret # ""
    /\ firstRun.side[GitOpsSecretFile].data = "generated"
    /\ otherResources[GitOpsSecretFile].data = "regenerated"
    /\ otherResources[ServiceSecretFile] = firstRun.side[ServiceSecretFile]
    /\ bootstrapped = firstRun.main

\* C13: on the output path of a run that has written both trees, an
\* invocation without --overwrite fails in the pre-flight check, on the
\* pipelines.yaml it finds, and leaves the filesystem as it found it; an
\* invocation with --overwrite passes the pre-flight check whatever is there,
\* and when it has gone through its writes the trees hold what it composed.
PreflightProtectsOutput ==
    (run > 1 /\ pc # "start") =>
        /\ ~args.Overwrite =>
               /\ pc = "failed"
               /\ log = <<[step |-> "check", ok |-> FALSE]>>
               /\ bootstrapErr = "pipelines.yaml in output path already exists"
               /\ fsys = firstRun.fsys
        /\ args.Overwrite =>
               /\ log[1] = [step |-> "check", ok |-> TRUE]
               /\ pc = "done" =>
                      /\ \A k \in DOMAIN bootstrapped : fsys.main[k] = bootstrapped[k]
                      /\ \A k \in DOMAIN otherResources : fsys.side[k] = otherResources[k]

\* C13's case: the invocation without --overwrite has failed on the
\* pipelines.yaml the run before it wrote, beside a secrets folder.
PreflightProtectsOutputWitness ==
    /\ run > 1
    /\ ~args.Overwrite
    /\ pc = "failed"
    /\ pipelinesFile \in DOMAIN fsys.main
    /\ DOMAIN fsys.side # {}
    /\ fsys = firstRun.fsys

\* Bootstrap has merged the output of buildResources over the bootstrapped
\* map: the main map is the one handed to the writer.
MainMapFinal == pc \in {"built", "wroteMain", "done"}

\* The elements of a list of file names.
Listed(names) == {names[i] : i \in DOMAIN names}

\* C18: in the main map Bootstrap hands to the writer, the entry at the CICD
\* base kustomization.yaml is the patched Kustomization: it lists the files of
\* createCICDResources, the image-repository binding file and, for an
\* internal registry, every registry-access file, it is not the unpatched
\* list, and it is what the writer puts on disk.
PatchedKustomizationWins ==
    MainMapFinal =>
        LET path == CICDBase \o "kustomization.yaml"
            unpatched == SortStrings(DOMAIN cicdRet.outputs)
        IN /\ path \in DOMAIN bootstrapped
           /\ bootstrapped[path].kind = "Kustomization"
           /\ Listed(unpatched) \subseteq Listed(bootstrapped[path].resources)
           /\ ImageBindingFile \in Listed(bootstrapped[path].resources)
           /\ InternalRegistry => Listed(RegistryAccessFiles) \subseteq Listed(bootstrapped[path].resources)
           /\ bootstrapped[path].resources # unpatched
           /\ pc \in {"wroteMain", "done"} =>
                 path \in DOMAIN fsys.main /\ fsys.main[path] = bootstrapped[path]

\* C18's case: Bootstrap has finished on an internal registry and the written
\* Kustomization lists three names more than createCICDResources produced.
PatchedKustomizationWinsWitness ==
    /\ pc = "done"
    /\ InternalRegistry
    /\ Len(fsys.main[CICDBase \o "kustomization.yaml"].resources)
           = Cardinality(DOMAIN cicdRet.outputs) + 3

\* The lexicographic order of the file names a CICD base Kustomization lists.
FileNameOrder == <<
    "01-namespaces/cicd-environment.yaml",
    "02-rolebindings/argocd-admin.yaml",
    "02-rolebindings/internal-registry-image-binding.yaml",
    "02-rolebindings/internal-registry-secret.yaml",
    "02-rolebindings/pipeline-service-account.yaml",
    "02-rolebindings/pipeline-service-role.yaml",
    "02-rolebindings/pipeline-service-rolebinding.yaml",
    "03-tasks/deploy-from-source-task.yaml",
    "03-tasks/set-commit-status-task.yaml",
    "04-pipelines/app-ci-pipeline.yaml",
    "04-pipelines/ci-dryrun-from-push-pipeline.yaml",
    "05-bindings/dev-app-taxi-taxi-binding.yaml",
    "05-bindings/github-push-binding.yaml",
    "05-bindings/gitlab-push-binding.yaml",
    "05-bindings/tst-dev-app-taxi-taxi-binding.yaml",
    "06-templates/app-ci-build-from-push-template.yaml",
    "06-templates/ci-dryrun-from-push-template.yaml",
    "07-eventlisteners/cicd-event-listener.yaml",
    "08-routes/gitops-webhook-event-listener.yaml" >>
Rank(name) == CHOOSE i \in DOMAIN FileNameOrder : FileNameOrder[i] = name

\* A list of file names in strictly ascending lexicographic order.
StrictlyAscending(names) ==
    /\ \A i \in DOMAIN names : names[i] \in Listed(FileNameOrder)
    /\ \A i, j \in DOMAIN names : i < j => Rank(names[i]) < Rank(names[j])

\* A list in which no name appears twice.
NoDuplicates(names) == \A i, j \in DOMAIN names : i # j => names[i] # names[j]

gitopsRepoURLFlag == "gitops-repo-url"
serviceRepoURLFlag == "service-repo-url"
supportedDrivers == {"github", "gitlab"}
defaultSealedSecretsServiceName ==
    [Namespace |-> "cicd", Name |-> "sealedsecretcontroller-sealed-secrets"]

\* strings.HasSuffix.
HasSuffix(str, suffix) ==
    Len(str) >= Len(suffix) /\ SubSeq(str, Len(str) - Len(suffix) + 1, Len(str)) = suffix

\* utility.AddGitSuffixIfNecessary.
AddGitSuffixIfNecessary(url) ==
    IF url = "" \/ HasSuffix(url, ".git") THEN url ELSE url \o ".git"

\* utility.MaybeCompletePrefix: a prefix without a "-" at its end gets one.
MaybeCompletePrefix(prefix) ==
    IF prefix # "" /\ ~HasSuffix(prefix, "-") THEN prefix \o "-" ELSE prefix

\* The repository URLs of the command lines.
RepoURLs == {"", "https://github.com/org/gitops", "https://git.example.com/gitops.git"}

\* The elements between the slashes of a URL; those of the URLs of the
\* command lines, as given and with the .git suffix, are computed once.
ParsedURLs ==
    [url \in RepoURLs \cup {AddGitSuffixIfNecessary(u) : u \in RepoURLs} |-> SplitPath(url, 1, 1, <<>>)]
URLElements(url) ==
    IF url \in DOMAIN ParsedURLs THEN ParsedURLs[url] ELSE SplitPath(url, 1, 1, <<>>)

\* accesstoken.HostFromURL and the path of url.Parse, for URLs of the form
\* scheme://host/path.
HostFromURL(url) ==
    IF Len(URLElements(url)) >= 3 THEN URLElements(url)[3] ELSE ""
URLPath(url) ==
    IF Len(URLElements(url)) > 3 THEN SubSeq(URLElements(url), 4, Len(URLElements(url))) ELSE <<"">>

\* ui.ValidateAccessToken: the error it returns; the Git host accepts three
\* tokens.
ValidateAccessToken(token, serviceRepo) ==
    IF token \in {"valid-token", "stored-token", "env-token"} THEN "" ELSE "invalid access token"

\* accesstoken.SetAccessToken; ext names the collaborator that fails in this
\* run. kr is the keyring with the environment, sv the tokens written so far.
SetAccessToken(kr, sv, token, ext) ==
    IF ext = "setAccessToken"
    THEN [err |-> "unable to set access token in keyring", keyring |-> kr,
          saved |-> Append(sv, token)]
    ELSE [err |-> "", keyring |-> [kr EXCEPT !.stored = token], saved |-> Append(sv, token)]

\* accesstoken.GetAccessToken: the token of the keyring, else the token of the
\* environment variable, else an error.
GetAccessToken(kr, ext) ==
    IF ext = "getAccessToken" THEN [secret |-> "", err |-> "keyring unavailable"]
    ELSE IF kr.stored # "" THEN [secret |-> kr.stored, err |-> ""]
    ELSE IF kr.env # "" THEN [secret |-> kr.env, err |-> ""]
    ELSE [secret |-> "", err |-> "secret not found in keyring"]

\* The statements of setAccessToken. st holds the parameters, the keyring,
\* the tokens written and the error returned; a statement after a return
\* does nothing.
validateGivenToken(st) ==
    IF st.io.BootstrapOptions.GitHostAccessToken # ""
       /\ ValidateAccessToken(st.io.BootstrapOptions.GitHostAccessToken,
                              st.io.BootstrapOptions.ServiceRepoURL) # ""
    THEN [st EXCEPT !.err = "Please enter a valid access token for --save-token-keyring"]
    ELSE st

saveGivenToken(st, ext) ==
    IF st.err # "" \/ ~st.io.BootstrapOptions.SaveTokenKeyRing THEN st
    ELSE LET set == SetAccessToken(st.keyring, st.saved, st.io.BootstrapOptions.GitHostAccessToken, ext)
         IN [st EXCEPT !.err = set.err, !.keyring = set.keyring, !.saved = set.saved]

\* A setAccessToken that leaves the token empty when none can be retrieved.
retrieveAccessTokenLenient(st, ext) ==
    IF st.err # "" \/ st.io.BootstrapOptions.GitHostAccessToken # "" THEN st
    ELSE [st EXCEPT !.io.BootstrapOptions.GitHostAccessToken = GetAccessToken(st.keyring, ext).secret]

retrieveAccessToken(st, ext) ==
    IF st.err # "" \/ st.io.BootstrapOptions.GitHostAccessToken # "" THEN st
    ELSE LET got == GetAccessToken(st.keyring, ext)
         IN IF got.err # ""
            THEN [st EXCEPT !.err = "unable to use access-token from keyring/env-var"]
            ELSE [st EXCEPT !.io.BootstrapOptions.GitHostAccessToken = got.secret]

setAccessToken(st, ext) == retrieveAccessToken(saveGivenToken(validateGivenToken(st), ext), ext)

\* checkMandatoryFlags: the error it returns, as missingFlagErr words it.
checkMandatoryFlags(flags) ==
    LET missingFlags == SelectSeq(<<serviceRepoURLFlag, gitopsRepoURLFlag>>, LAMBDA f : flags[f] = "")
    IN IF Len(missingFlags) = 0 THEN ""
       ELSE IF Len(missingFlags) = 1 THEN "required flag(s) " \o missingFlags[1] \o " not set"
       ELSE "required flag(s) " \o missingFlags[1] \o ", " \o missingFlags[2] \o " not set"

nonInteractiveMode(st, ext) ==
    LET err == checkMandatoryFlags(
                   (serviceRepoURLFlag :> st.io.BootstrapOptions.ServiceRepoURL)
                   @@ (gitopsRepoURLFlag :> st.io.BootstrapOptions.GitOpsRepoURL))
    IN IF err # "" THEN [st EXCEPT !.err = err] ELSE setAccessToken(st, ext)

addGitURLSuffixIfNecessary(st) ==
    [st EXCEPT !.io.BootstrapOptions.GitOpsRepoURL = AddGitSuffixIfNecessary(@),
               !.io.BootstrapOptions.ServiceRepoURL = AddGitSuffixIfNecessary(@)]

\* checkBootstrapDependencies. cluster tells, for Sealed Secrets, ArgoCD and
\* OpenShift Pipelines, whether the check finds it ("ok"), does not find it
\* ("notFound") or fails otherwise ("error"). st.checked lists the checks made
\* of the cluster, in order.
checkSealedSecrets(st, cluster) ==
    IF cluster.sealedSecrets = "ok"
    THEN LET given == st.io.BootstrapOptions.SealedSecretsService
         IN [st EXCEPT !.checked = Append(@, "CheckIfSealedSecretsExists"),
                       !.io.BootstrapOptions.SealedSecretsService =
                IF \/ given.Namespace # "" /\ given.Namespace # defaultSealedSecretsServiceName.Namespace
                   \/ given.Name # "" /\ given.Name # defaultSealedSecretsServiceName.Name
                THEN given
                ELSE defaultSealedSecretsServiceName]
    ELSE IF cluster.sealedSecrets = "notFound"
    THEN [st EXCEPT !.checked = Append(@, "CheckIfSealedSecretsExists")]
    ELSE [st EXCEPT !.checked = Append(@, "CheckIfSealedSecretsExists"),
                    !.err = "failed to check for Sealed Secrets Operator"]

checkArgoCD(st, cluster) ==
    IF st.err # "" THEN st
    ELSE IF cluster.argoCD = "ok"
    THEN [st EXCEPT !.checked = Append(@, "CheckIfArgoCDExists")]
    ELSE IF cluster.argoCD = "notFound"
    THEN [st EXCEPT !.checked = Append(@, "CheckIfArgoCDExists"),
                    !.missingDeps = Append(@, "OpenShift GitOps Operator")]
    ELSE [st EXCEPT !.checked = Append(@, "CheckIfArgoCDExists"),
                    !.err = "failed to check for OpenShift GitOps Operator"]

\* A Pipelines check that is given up once ArgoCD is found missing.
checkPipelinesUnlessMissing(st, cluster) ==
    IF st.err # "" \/ st.missingDeps # <<>> THEN st
    ELSE IF cluster.pipelines = "ok"
    THEN [st EXCEPT !.checked = Append(@, "CheckIfPipelinesExists")]
    ELSE IF cluster.pipelines = "notFound"
    THEN [st EXCEPT !.checked = Append(@, "CheckIfPipelinesExists"),
                    !.missingDeps = Append(@, "OpenShift Pipelines Operator")]
    ELSE [st EXCEPT !.checked = Append(@, "CheckIfPipelinesExists"),
                    !.err = "failed to check for OpenShift Pipelines Operator"]

checkPipelines(st, cluster) ==
    IF st.err # "" THEN st
    ELSE IF cluster.pipelines = "ok"
    THEN [st EXCEPT !.checked = Append(@, "CheckIfPipelinesExists")]
    ELSE IF cluster.pipelines = "notFound"
    THEN [st EXCEPT !.checked = Append(@, "CheckIfPipelinesExists"),
                    !.missingDeps = Append(@, "OpenShift Pipelines Operator")]
    ELSE [st EXCEPT !.checked = Append(@, "CheckIfPipelinesExists"),
                    !.err = "failed to check for OpenShift Pipelines Operator"]

missingDepsErr(st) ==
    IF st.err # "" \/ st.missingDeps = <<>> THEN st
    ELSE [st EXCEPT !.err = "failed to satisfy the required dependencies: " \o st.missingDeps[1]
                              \o (IF Len(st.missingDeps) > 1 THEN ", " \o st.missingDeps[2] ELSE "")]

checkBootstrapDependencies(st, cluster) ==
    missingDepsErr(checkPipelines(checkArgoCD(checkSealedSecrets(st, cluster), cluster), cluster))

\* Complete up to the choice of the mode: the client, the process-wide
\* identifier of a private driver, the dependencies.
setPrivateIdentifier(st) ==
    IF st.io.BootstrapOptions.PrivateRepoDriver # ""
    THEN [st EXCEPT !.identifier =
             [host |-> HostFromURL(st.io.BootstrapOptions.GitOpsRepoURL),
              driver |-> st.io.BootstrapOptions.PrivateRepoDriver]]
    ELSE st

completeNonInteractive(st, cluster, ext) ==
    IF ext = "client" THEN [st EXCEPT !.err = "failed to create the client"]
    ELSE LET deps == checkBootstrapDependencies(setPrivateIdentifier(st), cluster)
         IN IF deps.err # "" THEN deps
            ELSE nonInteractiveMode(addGitURLSuffixIfNecessary(deps), ext)

\* BootstrapParameters.Validate.
validateParameters(params) ==
    LET opts == params.BootstrapOptions
    IN IF Len(SelectSeq(URLPath(opts.GitOpsRepoURL), LAMBDA e : e # "")) # 2
       THEN [err |-> "repo must be org/repo", io |-> params]
       ELSE IF opts.PrivateRepoDriver # "" /\ opts.PrivateRepoDriver \notin supportedDrivers
       THEN [err |-> "invalid driver type", io |-> params]
       ELSE IF opts.CommitStatusTracker /\ opts.GitHostAccessToken = ""
       THEN [err |-> "--git-host-access-token is required if commit-status-tracker is enabled",
             io |-> params]
       ELSE IF opts.SaveTokenKeyRing /\ opts.GitHostAccessToken = ""
       THEN [err |-> "--git-host-access-token is required if --save-token-keyring is enabled",
             io |-> params]
       ELSE [err |-> "",
             io |-> [params EXCEPT !.BootstrapOptions.Prefix = MaybeCompletePrefix(@)]]

\* The collaborators that can fail in Complete, and what a check of the
\* cluster can find.
CompleteFailures == {"", "client", "setAccessToken", "getAccessToken"}
CheckResults == {"ok", "notFound", "error"}

\* genericclioptions.GenericRun runs Complete, Validate and Run in this
\* order and exits at the first error.
CmdFailed(err) ==
    /\ cmdPc' = "failed"
    /\ cmdErr' = err

Complete ==
    /\ cmdPc = "start"
    /\ ~(Cardinality(cmd.flags) = 0 \/ io.Interactive)
    /\ \E ext \in CompleteFailures, sealed \in CheckResults, argo \in CheckResults, pipe \in CheckResults :
          LET r == completeNonInteractive(
                       [io |-> io, keyring |-> keyring, saved |-> saved, err |-> "",
                        missingDeps |-> <<>>, identifier |-> defaultIdentifier,
                        checked |-> <<>>],
                       [sealedSecrets |-> sealed, argoCD |-> argo, pipelines |-> pipe], ext)
          IN /\ io' = r.io
             /\ keyring' = r.keyring
             /\ saved' = r.saved
             /\ defaultIdentifier' = r.identifier
             /\ IF r.err # "" THEN CmdFailed(r.err)
                ELSE cmdPc' = "completed" /\ cmdErr' = ""
    /\ UNCHANGED <<cmd, o, fsys, pc, bootstrapped, otherResources, cicdRet, bootstrapErr, log,
                   runVars, pruneVars, mergeVars, composeVars, prefixVars, hookVars, retryVars>>

Validate ==
    /\ cmdPc = "completed"
    /\ LET r == validateParameters(io)
       IN /\ io' = r.io
          /\ IF r.err # "" THEN CmdFailed(r.err)
             ELSE cmdPc' = "validated" /\ cmdErr' = ""
    /\ UNCHANGED <<cmd, keyring, saved, bootVars, pruneVars, mergeVars, composeVars, prefixVars, hookVars, retryVars>>

\* BootstrapParameters.Run: Bootstrap is called on the options of the
\* parameters, and BootstrapRepository when the parameters ask to push.
\* Bootstrap starts with its pre-flight check of the output path, on the
\* Overwrite and PushToGit of the options it is given; ext names the later
\* step that fails in this run.
Run ==
    /\ cmdPc = "validated"
    /\ run' = run + 1
    /\ args' = io.BootstrapOptions
    /\ \E ext \in {"", "bootstrap", "repository"} :
          IF checkPipelinesFileExists(fsys, io.BootstrapOptions.Overwrite,
                                      io.BootstrapOptions.PushToGit) # ""
          THEN CmdFailed(checkPipelinesFileExists(fsys, io.BootstrapOptions.Overwrite,
                                                  io.BootstrapOptions.PushToGit))
          ELSE IF ext = "bootstrap" THEN CmdFailed("bootstrap failed")
          ELSE IF io.PushToGit /\ ext = "repository"
          THEN CmdFailed("failed to create the gitops repository")
          ELSE cmdPc' = "ran" /\ cmdErr' = ""
    /\ UNCHANGED <<io, cmd, keyring, saved, o, defaultIdentifier, fsys, pc, bootstrapped,
                   otherResources, cicdRet, bootstrapErr, log, firstRun,
                   pruneVars, mergeVars, composeVars, prefixVars, hookVars, retryVars>>

\* The command lines: the values the flags bind, and the flags passed.

\* The flags whose value is not the default of NewCmdBootstrap.
FlagsPassed(params) ==
    LET opts == params.BootstrapOptions
    IN (IF opts.GitOpsRepoURL # "" THEN {gitopsRepoURLFlag} ELSE {})
       \cup (IF opts.ServiceRepoURL # "" THEN {serviceRepoURLFlag} ELSE {})
       \cup (IF opts.GitHostAccessToken # "" THEN {"git-host-access-token"} ELSE {})
       \cup (IF opts.SaveTokenKeyRing THEN {"save-token-keyring"} ELSE {})
       \cup (IF ~opts.CommitStatusTracker THEN {"commit-status-tracker"} ELSE {})
       \cup (IF opts.PrivateRepoDriver # "" THEN {"private-repo-driver"} ELSE {})
       \cup (IF opts.Prefix # "" THEN {"prefix"} ELSE {})
       \cup (IF opts.SealedSecretsService # defaultSealedSecretsServiceName
             THEN {"sealed-secrets-ns"} ELSE {})
       \cup (IF params.PushToGit THEN {"push-to-git"} ELSE {})

InitCmd ==
    /\ \E gitops \in RepoURLs, service \in {"", "https://github.com/org/taxi"},
          token \in {"", "valid-token", "expired-token"},
          save \in BOOLEAN, tracker \in BOOLEAN, drv \in {"", "gitlab", "bitbucket"},
          prefix \in {"", "tst"}, push \in BOOLEAN,
          sealedNS \in {defaultSealedSecretsServiceName.Namespace, "sealed"} :
          io = [PushToGit |-> push, Interactive |-> FALSE,
                BootstrapOptions |->
                    [GitOpsRepoURL |-> gitops, ServiceRepoURL |-> service,
                     GitHostAccessToken |-> token, SaveTokenKeyRing |-> save,
                     CommitStatusTracker |-> tracker, PrivateRepoDriver |-> drv,
                     Prefix |-> prefix, PushToGit |-> FALSE, Overwrite |-> FALSE,
                     SealedSecretsService |->
                         [Namespace |-> sealedNS, Name |-> defaultSealedSecretsServiceName.Name]]]
    /\ cmd = [flags |-> FlagsPassed(io)]
    /\ cmd.flags # {}
    /\ keyring \in [stored : {"", "stored-token"}, env : {"", "env-token"}]
    /\ saved = <<>>
    /\ cmdPc = "start"
    /\ cmdErr = ""
    \* the output path is new or, for a command that pushes, holds the .git
    \* of a repository
    /\ \E existing \in (IF io.PushToGit THEN {{}, {".git"}} ELSE {{}}) :
          fsys = [files |-> EmptyMap, existing |-> existing, main |-> EmptyMap, side |-> EmptyMap]
    /\ o = Nil /\ defaultIdentifier = Nil /\ pc = "idle"
    /\ bootstrapped = Nil /\ otherResources = Nil /\ cicdRet = Nil
    /\ bootstrapErr = "" /\ log = <<>>
    /\ run = 0 /\ args = Nil /\ firstRun = Nil
    /\ PruneIdle /\ MergeIdle /\ ComposeIdle /\ PrefixIdle /\ HookIdle /\ RetryIdle

NextCmd ==
    \/ Complete
    \/ Validate
    \/ Run

SpecCmd == InitCmd /\ [][NextCmd]_vars

\* No access token is passed and none is held by the keyring or the
\* environment, while both repository URLs are passed.
NoTokenObtainable ==
    /\ io.BootstrapOptions.GitOpsRepoURL # ""
    /\ io.BootstrapOptions.ServiceRepoURL # ""
    /\ io.BootstrapOptions.GitHostAccessToken = ""
    /\ keyring.stored = ""
    /\ keyring.env = ""

\* C14: on a command line that passes flags without --interactive and names
\* both repository URLs, when no access token is passed and none is held by
\* the keyring or the environment, Complete returns an error, the command
\* stops there and Bootstrap is not called; and in no run is Bootstrap called
\* after Complete or Validate has returned an error.
NoTokenNoBootstrap ==
    [][/\ (cmdPc = "start" /\ NoTokenObtainable) =>
              (cmdPc' = "failed" /\ cmdErr' # "" /\ run' = 0 /\ args' = Nil)
       /\ cmdPc = "failed" => (cmdPc' = "failed" /\ run' = run)
       /\ run' # run => (cmdPc = "validated" /\ io.BootstrapOptions.GitHostAccessToken # "")]_vars

\* C14's case: the command has failed in setAccessToken on a command line
\* with both URLs and no token; the keyring and the environment hold none
\* and Bootstrap has not been called.
NoTokenNoBootstrapWitness ==
    /\ cmdPc = "failed"
    /\ cmdErr = "unable to use access-token from keyring/env-var"
    /\ NoTokenObtainable
    /\ run = 0
    /\ args = Nil

(***************************************************************************)
(* addPrefixToResources on its own: one call on a prefix and a resource    *)
(* map, with the keys ranged over in any order.                            *)
(***************************************************************************)
MaxPrefixKeys == 3

\* Keys a resource map is given: plain relative names and names that
\* filepath.Clean rewrites.
PrefixKeyNames ==
    <<"a.yaml", "./a.yaml", "01-namespaces/cicd-environment.yaml", "dir/../a.yaml", "/a.yaml">>

InitPrefix ==
    /\ \E prefix \in {"", "cicd/base", "cicd/", "."} :
       \E keys \in SUBSET {PrefixKeyNames[i] : i \in 1..MaxPrefixKeys} :
       \E files \in [keys -> {"namespace", "role"}] :
          /\ prefixIn = [prefix |-> prefix, files |-> files]
          /\ prefixFiles = files
    /\ prefixOut = EmptyMap
    /\ prefixDone = FALSE
    /\ PruneIdle /\ MergeIdle /\ BootIdle /\ ComposeIdle /\ CmdIdle /\ HookIdle /\ RetryIdle

\* One call of addPrefixToResources; the range over the map yields its keys
\* in an order the language leaves open.  The map passed in is only read.
PrefixCall ==
    /\ ~prefixDone
    /\ \E order \in [1..Cardinality(DOMAIN prefixFiles) -> DOMAIN prefixFiles] :
          /\ \A k \in DOMAIN prefixFiles : \E i \in DOMAIN order : order[i] = k
          /\ prefixOut' = addPrefixLoop(prefixIn.prefix, prefixFiles, order, EmptyMap)
    /\ prefixDone' = TRUE
    /\ UNCHANGED <<prefixIn, prefixFiles, pruneVars, mergeVars, bootVars, composeVars, cmdVars, hookVars, retryVars>>

SpecPrefix == InitPrefix /\ [][PrefixCall]_vars

\* Every key of the input is a clean relative path: elements separated by
\* single slashes, none of them empty, "." or "..".
PlainRelative(p) ==
    /\ p # ""
    /\ \A i \in 1..Len(SplitPath(p, 1, 1, <<>>)) :
          SplitPath(p, 1, 1, <<>>)[i] \notin {"", ".", ".."}

\* The returned map holds exactly the keys prefix + "/" + k, each with the
\* value of k, as many entries as the input, and the input is as it was.
RewrittenExactly ==
    /\ DOMAIN prefixOut = {prefixIn.prefix \o "/" \o k : k \in DOMAIN prefixIn.files}
    /\ \A k \in DOMAIN prefixIn.files :
          /\ (prefixIn.prefix \o "/" \o k) \in DOMAIN prefixOut
          /\ prefixOut[prefixIn.prefix \o "/" \o k] = prefixIn.files[k]
    /\ Cardinality(DOMAIN prefixOut) = Cardinality(DOMAIN prefixIn.files)
    /\ prefixFiles = prefixIn.files

\* C20 as stated: for every resource map and prefix p, addPrefixToResources
\* returns a map whose key set is exactly { p + "/" + k }, each value
\* unchanged, with as many entries as the input, and leaves the input
\* unmodified.
PrefixRewriteForEveryInput ==
    prefixDone => RewrittenExactly

\* C20, amended: when the prefix and every key are clean relative paths,
\* addPrefixToResources returns a map whose key set is exactly
\* { p + "/" + k }, each value unchanged, with as many entries as the input;
\* for every prefix and map the input is left unmodified, the output has no
\* more entries than the input and every value in it is a value of the
\* input.
PrefixRewriteOnCleanPaths ==
    prefixDone =>
        /\ (PlainRelative(prefixIn.prefix) /\ \A k \in DOMAIN prefixIn.files : PlainRelative(k))
              => RewrittenExactly
        /\ prefixFiles = prefixIn.files
        /\ Cardinality(DOMAIN prefixOut) <= Cardinality(DOMAIN prefixIn.files)
        /\ \A p \in DOMAIN prefixOut : \E k \in DOMAIN prefixIn.files : prefixOut[p] = prefixIn.files[k]

\* C20's case: the call has returned on a clean prefix and two clean keys
\* with different values, and both are found under the prefix.
PrefixRewriteOnCleanPathsWitness ==
    /\ prefixDone
    /\ prefixIn.prefix = "cicd/base"
    /\ DOMAIN prefixIn.files = {"a.yaml", "01-namespaces/cicd-environment.yaml"}
    /\ prefixIn.files["a.yaml"] # prefixIn.files["01-namespaces/cicd-environment.yaml"]
    /\ DOMAIN prefixOut = {"cicd/base/a.yaml", "cicd/base/01-namespaces/cicd-environment.yaml"}

(***************************************************************************)
(* maybeMakeHookSecrets on its own: called on one options object, and      *)
(* called again on the object as the call before left it.                  *)
(***************************************************************************)
MaxHookCalls == 2

InitHooks ==
    /\ hookOpts \in {opts \in BootstrapOptionsSet :
                        /\ ~opts.Overwrite /\ ~opts.PushToGit
                        /\ opts.ImageRepo = <<>> /\ opts.DockerConfigJSONFilename = ""
                        /\ opts.PrivateRepoDriver = ""}
    /\ hookCalls = <<>>
    /\ hookErr = ""
    /\ hookN = 0
    /\ PruneIdle /\ MergeIdle /\ BootIdle /\ ComposeIdle /\ CmdIdle /\ PrefixIdle /\ RetryIdle

\* One call of maybeMakeHookSecrets on the object; secrets.GenerateString
\* returns a random string or an error each time it is called.
HookCall ==
    /\ hookN < MaxHookCalls
    /\ \E g1, g2 \in {"", "generated", "regenerated"} :
          LET r == maybeMakeHookSecrets(hookOpts, g1, g2)
          IN /\ hookOpts' = r.opts
             /\ hookErr' = r.err
             /\ hookCalls' = hookCalls \o r.calls
    /\ hookN' = hookN + 1
    /\ UNCHANGED <<pruneVars, mergeVars, bootVars, composeVars, cmdVars, prefixVars, retryVars>>

SpecHooks == InitHooks /\ [][HookCall]_vars

\* The calls of secrets.GenerateString made by the step.
NewHookCalls == SubSeq(hookCalls', Len(hookCalls) + 1, Len(hookCalls'))

\* The webhook secrets of the object that are empty before the step.
EmptyHookSecrets ==
    {f \in {"GitOpsWebhookSecret", "ServiceWebhookSecret"} : hookOpts[f] = ""}

EnvironmentNames(m) == [i \in DOMAIN m.environments |-> m.environments[i].name]

\* C22: the manifest stored under pipelines.yaml in the main map that a
\* successful bootstrapResources returned has one pipelines config, named
\* prefix+"cicd", and the environments prefix+"dev", prefix+"stage" in that
\* order; only the dev environment carries an application, exactly one, with
\* exactly one service; and it is not the manifest without environments that
\* createInitialFiles put there.
BootstrappedManifestShape ==
    bootstrapped # Nil =>
        /\ pipelinesFile \in DOMAIN bootstrapped
        /\ bootstrapped[pipelinesFile].kind = "Manifest"
        /\ bootstrapped[pipelinesFile].config # Nil
        /\ bootstrapped[pipelinesFile].config.pipelines = [name |-> o.Prefix \o "cicd"]
        /\ EnvironmentNames(bootstrapped[pipelinesFile]) = <<o.Prefix \o "dev", o.Prefix \o "stage">>
        /\ Len(bootstrapped[pipelinesFile].environments[1].apps) = 1
        /\ Len(bootstrapped[pipelinesFile].environments[1].apps[1].services) = 1
        /\ bootstrapped[pipelinesFile].environments[2].apps = <<>>
        /\ bootstrapped[pipelinesFile].environments # <<>>

\* C22's case: a run with the prefix tst- has written both trees, and the
\* manifest of the main map names the environments tst-dev and tst-stage.
BootstrappedManifestShapeWitness ==
    /\ pc = "done"
    /\ o.Prefix = "tst-"
    /\ o.GitOpsRepoURL # o.ServiceRepoURL
    /\ EnvironmentNames(bootstrapped[pipelinesFile]) = <<"tst-dev", "tst-stage">>
    /\ bootstrapped[pipelinesFile].config.pipelines.name = "tst-cicd"

\* The step at which Bootstrap returned its error.
FailedAt(step) == pc = "failed" /\ log[Len(log)].step = step

\* C23 as stated: whenever Bootstrap returns an error no file of either tree
\* has been written, and the side tree is written if and only if the main
\* tree was written.
BootstrapAllOrNothing ==
    /\ pc = "failed" => (DOMAIN fsys.main = {} /\ DOMAIN fsys.side = {})
    /\ DOMAIN fsys.side # {} <=> DOMAIN fsys.main # {}

\* C23, amended: when Bootstrap returns an error from the pre-flight check,
\* the webhook secrets, bootstrapResources or buildResources, no file of
\* either tree has been written; the side tree is written only after the
\* main tree has been written in full; when the write of the main tree fails
\* the error is returned with no side file and at most a part of the main
\* tree on disk, and when the write of the side tree fails the error is
\* returned with the whole main tree and at most a part of the side tree
\* left on disk.
BootstrapWritesMainThenSide ==
    /\ (pc = "failed" /\ log[Len(log)].step \notin {"writeMain", "writeSide"}) =>
           (DOMAIN fsys.main = {} /\ DOMAIN fsys.side = {})
    /\ DOMAIN fsys.side # {} => (bootstrapped # Nil /\ fsys.main = bootstrapped)
    /\ FailedAt("writeMain") =>
           /\ DOMAIN fsys.side = {}
           /\ DOMAIN fsys.main \subseteq DOMAIN bootstrapped
           /\ DOMAIN fsys.main # DOMAIN bootstrapped
    /\ FailedAt("writeSide") =>
           /\ fsys.main = bootstrapped
           /\ DOMAIN fsys.main # {}
           /\ DOMAIN fsys.side \subseteq DOMAIN otherResources
           /\ DOMAIN fsys.side # DOMAIN otherResources
    /\ pc = "done" => (fsys.main = bootstrapped /\ fsys.side = otherResources)

\* C23's case: the write of the side tree has failed and Bootstrap has
\* returned its error with the main tree on disk and no secret beside it.
BootstrapWritesMainThenSideWitness ==
    /\ FailedAt("writeSide")
    /\ bootstrapErr = "failed to write resources"
    /\ pipelinesFile \in DOMAIN fsys.main
    /\ DOMAIN fsys.side = {}

\* C25: when --push-to-git is passed on the command line without
\* --overwrite and the output path holds a .git entry, the pre-flight check
\* of Bootstrap fails: the value the flag binds is the value
\* checkPipelinesFileExists receives as pushToGit.
PushToGitFlagGuardsGitDir ==
    run > 0 =>
        /\ args.PushToGit = io.PushToGit
        /\ (io.PushToGit /\ ~args.Overwrite /\ ".git" \in fsys.existing) =>
               (cmdPc = "failed" /\ cmdErr = ".git in output path already exists")

\* The secrets the service-account resource of the returned main map
\* references, in their order (none when the map has no such resource).
ServiceAccountSecrets ==
    IF serviceAccountPath \in DOMAIN cicdRet.outputs
    THEN cicdRet.outputs[serviceAccountPath].secrets
    ELSE <<>>

\* The secret of that name and namespace is a value of the returned side map.
InSideMap(ns, name) ==
    \E p \in DOMAIN cicdRet.otherOutputs :
        /\ cicdRet.otherOutputs[p].kind = "Secret"
        /\ cicdRet.otherOutputs[p].ns = ns
        /\ cicdRet.otherOutputs[p].name = name

\* C24: after a successful createCICDResources the service-account resource
\* at 02-rolebindings/pipeline-service-account.yaml references exactly the
\* secrets generated in the run: regcred if and only if a docker-config path
\* was supplied, git-host-access-token and git-host-basic-auth-token if and
\* only if an access token was supplied, all three when both were; every
\* secret it references is a secret of the side map; and the cluster role
\* binding binds the account of that name and namespace.
ServiceAccountMatchesSecrets ==
    CICDSucceeded =>
        /\ ServiceAccountSecrets =
               (IF o.DockerConfigJSONFilename # "" THEN <<"regcred">> ELSE <<>>)
               \o (IF o.GitHostAccessToken # ""
                   THEN <<"git-host-access-token", "git-host-basic-auth-token">> ELSE <<>>)
        /\ \A i \in DOMAIN ServiceAccountSecrets :
               InSideMap(o.Prefix \o "cicd", ServiceAccountSecrets[i])
        /\ cicdRet.outputs[rolebindingsPath].subject = [ns |-> o.Prefix \o "cicd", name |-> "pipeline"]
        /\ serviceAccountPath \in DOMAIN cicdRet.outputs =>
               /\ cicdRet.outputs[serviceAccountPath].kind = "ServiceAccount"
               /\ cicdRet.outputs[rolebindingsPath].subject =
                      [ns |-> cicdRet.outputs[serviceAccountPath].ns,
                       name |-> cicdRet.outputs[serviceAccountPath].name]

\* C24's case: createCICDResources has succeeded on a docker-config path and
\* an access token, and the service account references the three secrets.
ServiceAccountMatchesSecretsWitness ==
    /\ CICDSucceeded
    /\ o.DockerConfigJSONFilename # ""
    /\ o.GitHostAccessToken # ""
    /\ Len(cicdRet.outputs[serviceAccountPath].secrets) = 3
    /\ Join("secrets", "docker-config.yaml") \in DOMAIN cicdRet.otherOutputs

\* C26: over Complete, Validate and Run the keyring is never written with an
\* empty or unvalidated token: every token accesstoken.SetAccessToken has
\* been invoked with is non-empty and passes ui.ValidateAccessToken.
KeyringOnlyValidatedTokens ==
    \A i \in DOMAIN saved :
        /\ saved[i] # ""
        /\ ValidateAccessToken(saved[i], io.BootstrapOptions.ServiceRepoURL) = ""

\* C29: checkBootstrapDependencies, on the parameters of the command and for
\* every answer of the cluster: it returns nil exactly when ArgoCD and
\* Pipelines are found and Sealed Secrets is found or NotFound; a NotFound
\* Sealed Secrets leaves SealedSecretsService as it was; a NotFound ArgoCD
\* does not stop the Pipelines check, and with both missing the one error
\* names both, the GitOps operator first; another error of a check is
\* returned at once and no later check is made.
DependenciesDecideCheck ==
    cmdPc = "start" =>
        \A sealed \in CheckResults, argo \in CheckResults, pipe \in CheckResults :
            LET r == checkBootstrapDependencies(
                         [io |-> io, keyring |-> keyring, saved |-> saved, err |-> "",
                          missingDeps |-> <<>>, identifier |-> defaultIdentifier,
                          checked |-> <<>>],
                         [sealedSecrets |-> sealed, argoCD |-> argo, pipelines |-> pipe])
            IN /\ (r.err = "") <=> (argo = "ok" /\ pipe = "ok" /\ sealed \in {"ok", "notFound"})
               /\ sealed = "notFound" =>
                      r.io.BootstrapOptions.SealedSecretsService = io.BootstrapOptions.SealedSecretsService
               /\ (sealed # "error" /\ argo = "notFound") =>
                      r.checked = <<"CheckIfSealedSecretsExists", "CheckIfArgoCDExists",
                                    "CheckIfPipelinesExists">>
               /\ (sealed # "error" /\ argo = "notFound" /\ pipe = "notFound") =>
                      r.err = "failed to satisfy the required dependencies: "
                              \o "OpenShift GitOps Operator, OpenShift Pipelines Operator"
               /\ sealed = "error" =>
                      /\ r.err = "failed to check for Sealed Secrets Operator"
                      /\ r.checked = <<"CheckIfSealedSecretsExists">>
               /\ (sealed # "error" /\ argo = "error") =>
                      /\ r.err = "failed to check for OpenShift GitOps Operator"
                      /\ r.checked = <<"CheckIfSealedSecretsExists", "CheckIfArgoCDExists">>
               /\ (sealed # "error" /\ argo # "error" /\ pipe = "error") =>
                      r.err = "failed to check for OpenShift Pipelines Operator"

\* Complete has failed on both operators missing.
DependenciesDecideCheckWitness ==
    /\ cmdPc = "failed"
    /\ cmdErr = "failed to satisfy the required dependencies: "
                \o "OpenShift GitOps Operator, OpenShift Pipelines Operator"

\* ---------------------------------------------------------------------
\* The interactive mode of the bootstrap command.
\* ---------------------------------------------------------------------

\* isKnownDriver: the host of the URL is one a driver is identified for.
isKnownDriver(identifier, repoURL) ==
    HostFromURL(repoURL) # "" /\ Identify(identifier, HostFromURL(repoURL)) # ""

\* The statements of initiateInteractiveMode. st is the record of Complete,
\* ans the answers of the user to the prompts, flags the flags passed on the
\* command line; a statement after a return does nothing.

\* The Sealed Secrets namespace is asked for when the default service is not
\* found; the cluster answers as it did to checkBootstrapDependencies.
promptSealedSecrets(st, cluster, ans) ==
    IF cluster.sealedSecrets # "ok"
    THEN [st EXCEPT !.io.BootstrapOptions.SealedSecretsService.Namespace = ans.sealedNS]
    ELSE st

promptGitOpsRepo(st, ans) ==
    LET url == AddGitSuffixIfNecessary(IF st.io.BootstrapOptions.GitOpsRepoURL = ""
                                       THEN ans.gitops
                                       ELSE st.io.BootstrapOptions.GitOpsRepoURL)
        known == isKnownDriver(st.identifier, url)
    IN IF known THEN [st EXCEPT !.io.BootstrapOptions.GitOpsRepoURL = url]
       ELSE IF HostFromURL(url) = ""
       THEN [st EXCEPT !.io.BootstrapOptions.GitOpsRepoURL = url,
                       !.io.BootstrapOptions.PrivateRepoDriver = ans.driver,
                       !.err = "failed to parse the gitops url"]
       ELSE [st EXCEPT !.io.BootstrapOptions.GitOpsRepoURL = url,
                       !.io.BootstrapOptions.PrivateRepoDriver = ans.driver,
                       !.identifier = [host |-> HostFromURL(url), driver |-> ans.driver]]

promptImageRepo(st, ans, flags) ==
    IF st.err # "" THEN st
    ELSE IF st.io.BootstrapOptions.ImageRepo # <<>>
    THEN IF ValidateImageRepo(st.io.BootstrapOptions.ImageRepo).err # ""
         THEN [st EXCEPT !.err = ValidateImageRepo(st.io.BootstrapOptions.ImageRepo).err]
         ELSE IF /\ ~ValidateImageRepo(st.io.BootstrapOptions.ImageRepo).isInternal
                 /\ "dockercfgjson" \notin flags /\ ans.promptForAll
         THEN [st EXCEPT !.io.BootstrapOptions.DockerConfigJSONFilename = ans.dockercfg]
         ELSE st
    ELSE IF ~ans.promptForAll THEN st
    ELSE IF ans.useInternalRegistry
    THEN [st EXCEPT !.io.BootstrapOptions.ImageRepo = <<"project", "app">>]
    ELSE [st EXCEPT !.io.BootstrapOptions.ImageRepo = <<"quay.io", "user", "repo">>,
                    !.io.BootstrapOptions.DockerConfigJSONFilename = ans.dockercfg]

promptServiceRepo(st, ans) ==
    IF st.err # "" THEN st
    ELSE LET url == AddGitSuffixIfNecessary(IF st.io.BootstrapOptions.ServiceRepoURL = ""
                                            THEN ans.service
                                            ELSE st.io.BootstrapOptions.ServiceRepoURL)
         IN [st EXCEPT !.io.BootstrapOptions.GitOpsWebhookSecret =
                           IF ans.promptForAll THEN ans.webhookSecret ELSE @,
                       !.io.BootstrapOptions.ServiceRepoURL = url,
                       !.io.BootstrapOptions.ServiceWebhookSecret =
                           IF ans.promptForAll THEN ans.webhookSecret ELSE @]

\* The token and the choice of the keyring as the prompts leave them.
promptToken(st, ans, flags) ==
    [st EXCEPT !.io.BootstrapOptions.GitHostAccessToken = IF @ = "" THEN ans.token ELSE @,
               !.io.BootstrapOptions.SaveTokenKeyRing =
                   IF "save-token-keyring" \notin flags THEN ans.useKeyring ELSE @]

\* The token of the keyring is taken when there is one; else the token is
\* asked for and setAccessToken is called, its error dropped.
interactiveToken(st, ans, flags, ext) ==
    IF st.err # "" THEN st
    ELSE IF GetAccessToken(st.keyring, ext).err \notin {"", "secret not found in keyring"}
    THEN [st EXCEPT !.err = GetAccessToken(st.keyring, ext).err]
    ELSE IF GetAccessToken(st.keyring, ext).secret = ""
    THEN [setAccessToken(promptToken(st, ans, flags), ext) EXCEPT !.err = ""]
    ELSE [st EXCEPT !.io.BootstrapOptions.GitHostAccessToken = GetAccessToken(st.keyring, ext).secret]

\* The last prompts, and the output path named after the GitOps repository.
promptOptions(st, ans, flags) ==
    IF st.err # "" THEN st
    ELSE LET path == URLPath(st.io.BootstrapOptions.GitOpsRepoURL)
             last == path[Len(path)]
             repoName == IF HasSuffix(last, ".git") THEN SubSeq(last, 1, Len(last) - 4) ELSE last
         IN [st EXCEPT !.io.BootstrapOptions.CommitStatusTracker =
                           IF "commit-status-tracker" \notin flags /\ ans.promptForAll
                           THEN ans.tracker ELSE @,
                       !.io.PushToGit =
                           IF "push-to-git" \notin flags /\ ans.promptForAll THEN ans.push ELSE @,
                       !.io.BootstrapOptions.Prefix =
                           IF @ = "" /\ ans.promptForAll THEN ans.prefix ELSE @,
                       !.io.BootstrapOptions.OutputPath =
                           IF "output" \notin flags THEN repoName ELSE @,
                       !.io.BootstrapOptions.Overwrite = TRUE]

initiateInteractiveMode(st, cluster, ans, flags, ext) ==
    promptOptions(
        interactiveToken(
            promptServiceRepo(
                promptImageRepo(promptGitOpsRepo(promptSealedSecrets(st, cluster, ans), ans),
                                ans, flags),
                ans),
            ans, flags, ext),
        ans, flags)

\* Complete when no flag is passed or --interactive is.
completeInteractive(st, cluster, ans, flags, ext) ==
    IF ext = "client" THEN [st EXCEPT !.err = "failed to create the client"]
    ELSE IF checkBootstrapDependencies(setPrivateIdentifier(st), cluster).err # ""
    THEN checkBootstrapDependencies(setPrivateIdentifier(st), cluster)
    ELSE initiateInteractiveMode(checkBootstrapDependencies(setPrivateIdentifier(st), cluster),
                                 cluster, ans, flags, ext)

CompleteInteractive ==
    /\ cmdPc = "start"
    /\ Cardinality(cmd.flags) = 0 \/ io.Interactive
    /\ \E ext \in CompleteFailures, sealed \in CheckResults, argo \in {"ok", "error"},
          promptForAll \in BOOLEAN, useInternalRegistry \in BOOLEAN,
          token \in {"valid-token", "expired-token"}, useKeyring \in BOOLEAN,
          tracker \in BOOLEAN, push \in BOOLEAN :
          LET r == completeInteractive(
                       [io |-> io, keyring |-> keyring, saved |-> saved, err |-> "",
                        missingDeps |-> <<>>, identifier |-> defaultIdentifier,
                        checked |-> <<>>],
                       [sealedSecrets |-> sealed, argoCD |-> argo, pipelines |-> "ok"],
                       [promptForAll |-> promptForAll, sealedNS |-> "sealed",
                        gitops |-> "https://git.example.com/gitops.git", driver |-> "gitlab",
                        useInternalRegistry |-> useInternalRegistry,
                        dockercfg |-> "~/.docker/config.json", webhookSecret |-> "",
                        service |-> "https://github.com/org/taxi",
                        token |-> token, useKeyring |-> useKeyring,
                        tracker |-> tracker, push |-> push, prefix |-> "tst"],
                       cmd.flags, ext)
          IN /\ io' = r.io
             /\ keyring' = r.keyring
             /\ saved' = r.saved
             /\ defaultIdentifier' = r.identifier
             /\ IF r.err # "" THEN CmdFailed(r.err)
                ELSE cmdPc' = "completed" /\ cmdErr' = ""
    /\ UNCHANGED <<cmd, o, fsys, pc, bootstrapped, otherResources, cicdRet, bootstrapErr, log,
                   runVars, pruneVars, mergeVars, composeVars, prefixVars, hookVars, retryVars>>

\* The command lines of both modes: with --interactive, with no flag at all,
\* and with flags only.
InitInteractive ==
    /\ \E gitops \in RepoURLs, service \in {"", "https://github.com/org/taxi"},
          token \in {"", "valid-token", "expired-token"},
          save \in BOOLEAN, interactive \in BOOLEAN :
          /\ io = [PushToGit |-> FALSE, Interactive |-> interactive,
                   BootstrapOptions |->
                       [GitOpsRepoURL |-> gitops, ServiceRepoURL |-> service,
                        GitHostAccessToken |-> token, SaveTokenKeyRing |-> save,
                        CommitStatusTracker |-> TRUE, PrivateRepoDriver |-> "",
                        Prefix |-> "", PushToGit |-> FALSE, Overwrite |-> FALSE,
                        SealedSecretsService |-> defaultSealedSecretsServiceName,
                        ImageRepo |-> <<>>, DockerConfigJSONFilename |-> "~/.docker/config.json",
                        GitOpsWebhookSecret |-> "", ServiceWebhookSecret |-> "",
                        OutputPath |-> "./gitops"]]
          /\ cmd = [flags |-> FlagsPassed(io) \cup (IF interactive THEN {"interactive"} ELSE {})]
    /\ keyring \in [stored : {"", "stored-token"}, env : {"", "env-token"}]
    /\ saved = <<>>
    /\ cmdPc = "start"
    /\ cmdErr = ""
    /\ fsys = [files |-> EmptyMap, existing |-> {}, main |-> EmptyMap, side |-> EmptyMap]
    /\ o = Nil /\ defaultIdentifier = Nil /\ pc = "idle"
    /\ bootstrapped = Nil /\ otherResources = Nil /\ cicdRet = Nil
    /\ bootstrapErr = "" /\ log = <<>>
    /\ run = 0 /\ args = Nil /\ firstRun = Nil
    /\ PruneIdle /\ MergeIdle /\ ComposeIdle /\ PrefixIdle /\ HookIdle /\ RetryIdle

NextInteractive ==
    \/ Complete
    \/ CompleteInteractive
    \/ Validate
    \/ Run

SpecInteractive == InitInteractive /\ [][NextInteractive]_vars

\* C27: in both modes, when setAccessToken fails Complete returns the error:
\* Validate and Run are reached only with a token that passes validation.
FailedTokenStopsComplete ==
    cmdPc \in {"completed", "validated", "ran"} =>
        ValidateAccessToken(io.BootstrapOptions.GitHostAccessToken,
                            io.BootstrapOptions.ServiceRepoURL) = ""

\* ---------------------------------------------------------------------
\* ui.CheckRepoAccessTokenValidity: the prompt for a repository that the
\* access token matches.
\* ---------------------------------------------------------------------

\* The most prompts a session is followed for.
MaxRetries == 3

\* What validateRepoTokenCreds can answer: no error, a Forbidden error,
\* another error.
ValidationResults == {"nil", "forbidden", "error"}

\* A loop that gives up on a Forbidden answer.
checkOnceForbiddenFails(params, course, url, result) ==
    LET asked == [course EXCEPT !.prompts = @ + 1, !.validations = @ + 1,
                                !.results = Append(@, result)]
        entered == [params EXCEPT !.RepoInfo.RepoURL = AddGitSuffixIfNecessary(url)]
    IN IF result = "nil"
       THEN [params |-> [entered EXCEPT !.TokenRepoMatchCondition = TRUE],
             course |-> [asked EXCEPT !.pc = "returned"]]
       ELSE [params |-> entered,
             course |-> [asked EXCEPT !.pc = "returned", !.err = "validation failed"]]

\* One iteration of the loop: the prompt, the validation of the repository
\* entered, and what its result leads to.
checkOnce(params, course, url, result) ==
    LET asked == [course EXCEPT !.prompts = @ + 1, !.validations = @ + 1,
                                !.results = Append(@, result)]
        entered == [params EXCEPT !.RepoInfo.RepoURL = AddGitSuffixIfNecessary(url)]
    IN IF result = "forbidden"
       THEN [params |-> entered, course |-> [asked EXCEPT !.warnings = @ + 1]]
       ELSE IF result = "error"
       THEN [params |-> entered,
             course |-> [asked EXCEPT !.pc = "returned", !.err = "validation failed"]]
       ELSE [params |-> [entered EXCEPT !.TokenRepoMatchCondition = TRUE],
             course |-> [asked EXCEPT !.pc = "returned"]]

\* The call: the repository is marked valid and the loop condition is
\* tested for the first time.
CheckRepoAccessTokenValidity ==
    /\ retry.pc = "called"
    /\ repoParams' = [repoParams EXCEPT !.RepoInfo.GitRepoValid = TRUE]
    /\ retry' = [retry EXCEPT !.pc = IF repoParams.TokenRepoMatchCondition
                                     THEN "returned" ELSE "loop"]
    /\ UNCHANGED <<pruneVars, mergeVars, bootVars, composeVars, cmdVars, prefixVars, hookVars>>

\* An iteration; the user enters a repository and the Git host answers.
CheckRepoLoop ==
    /\ retry.pc = "loop"
    /\ retry.prompts < MaxRetries
    /\ \E url \in {"https://github.com/org/taxi", "https://github.com/org/gitops.git",
                   "https://git.example.com/gitops.git"},
          result \in ValidationResults :
          /\ repoParams' = checkOnce(repoParams, retry, url, result).params
          /\ retry' = checkOnce(repoParams, retry, url, result).course
    /\ UNCHANGED <<pruneVars, mergeVars, bootVars, composeVars, cmdVars, prefixVars, hookVars>>

InitRetry ==
    /\ \E matches \in BOOLEAN, valid \in BOOLEAN, token \in {"valid-token", "expired-token"},
          repoType \in {"service", "gitops"} :
          /\ repoParams = [RepoInfo |-> [RepoURL |-> "", GitRepoValid |-> valid],
                           GitHostAccessToken |-> token, KeyringServiceRequired |-> FALSE,
                           TokenRepoMatchCondition |-> matches]
          /\ retry = [pc |-> "called", repoType |-> repoType, err |-> "", prompts |-> 0,
                      validations |-> 0, warnings |-> 0, results |-> <<>>,
                      matchedOnEntry |-> matches]
    /\ PruneIdle /\ MergeIdle /\ BootIdle /\ ComposeIdle /\ CmdIdle /\ PrefixIdle /\ HookIdle

NextRetry ==
    \/ CheckRepoAccessTokenValidity
    \/ CheckRepoLoop

SpecRetry == InitRetry /\ [][NextRetry]_vars

\* C28: the retry protocol of CheckRepoAccessTokenValidity. With
\* TokenRepoMatchCondition true on entry it returns nil without a prompt;
\* else every iteration prompts once and validates once, every Forbidden
\* result gives a warning and another iteration, and the loop stops at the
\* first result that is not Forbidden: nil sets TokenRepoMatchCondition and
\* returns nil, another error is returned with TokenRepoMatchCondition still
\* false. It returns nil only with TokenRepoMatchCondition true, and it
\* returns only after a result that is not Forbidden.
RetryUntilNotForbidden ==
    retry # Nil =>
        /\ retry.prompts = retry.validations
        /\ retry.prompts = Len(retry.results)
        /\ retry.warnings = Len(SelectSeq(retry.results, LAMBDA r : r = "forbidden"))
        /\ \A i \in 1..(Len(retry.results) - 1) : retry.results[i] = "forbidden"
        /\ retry.matchedOnEntry => retry.prompts = 0 /\ retry.err = ""
        /\ retry.pc = "loop" =>
              /\ ~repoParams.TokenRepoMatchCondition
              /\ \A i \in DOMAIN retry.results : retry.results[i] = "forbidden"
        /\ (retry.pc = "returned" /\ ~retry.matchedOnEntry) =>
              /\ retry.results # <<>>
              /\ retry.results[Len(retry.results)] # "forbidden"
              /\ retry.results[Len(retry.results)] = "nil" =>
                    retry.err = "" /\ repoParams.TokenRepoMatchCondition
              /\ retry.results[Len(retry.results)] = "error" =>
                    retry.err # "" /\ ~repoParams.TokenRepoMatchCondition
        /\ (retry.pc = "returned" /\ retry.err = "") => repoParams.TokenRepoMatchCondition

\* The call has returned nil after two Forbidden answers and a third prompt.
RetryUntilNotForbiddenWitness ==
    /\ retry # Nil
    /\ retry.pc = "returned"
    /\ retry.err = ""
    /\ retry.results = <<"forbidden", "forbidden", "nil">>
    /\ retry.warnings = 2

\* The options and the filesystem of a run with other values for the secret
\* material named in which: the two webhook secrets, the access token when
\* there is one, the content of the docker-config file.
WithOtherSecrets(opts, which) ==
    [opts EXCEPT !.GitOpsWebhookSecret = IF "gitops" \in which THEN "other-" \o @ ELSE @,
                 !.ServiceWebhookSecret = IF "service" \in which THEN "other-" \o @ ELSE @,
                 !.GitHostAccessToken = IF "token" \in which /\ @ # "" THEN "other-" \o @ ELSE @]
WithOtherFiles(fs, which) ==
    [fs EXCEPT !.files = [f \in DOMAIN @ |-> IF "docker" \in which THEN "other-" \o @[f] ELSE @[f]]]

\* C30: secret non-interference on the main map. When bootstrapResources
\* succeeds, a successful bootstrapResources on options that differ only in
\* the values of the webhook secrets, of the non-empty access token and of
\* the content of the docker-config file returns the same main map.
SecretsStayOutOfMainMap ==
    [][(pc = "secrets" /\ pc' = "resources") =>
          \A which \in {{"gitops"}, {"service"}, {"token"}, {"docker"},
                        {"gitops", "service", "token", "docker"}} :
              LET other == bootstrapResources(WithOtherSecrets(o, which),
                                              WithOtherFiles(fsys, which), defaultIdentifier, "")
              IN /\ other.err = ""
                 /\ other.main = bootstrapped'
                 /\ (which = {"gitops"}) => other.side # otherResources']_vars

\* bootstrapResources has succeeded on an access token and a docker config,
\* and the service account of the main map names their three secrets.
SecretsStayOutOfMainMapWitness ==
    /\ pc = "resources"
    /\ o.GitHostAccessToken # ""
    /\ o.DockerConfigJSONFilename # ""
    /\ \E k \in DOMAIN bootstrapped :
          /\ bootstrapped[k].kind = "ServiceAccount"
          /\ Len(bootstrapped[k].secrets) = 3

====
